---- MODULE Spec2Model ----
(***************************************************************************)
(* KingCrab chess engine: Board (bitboards, piece list, game state,        *)
(* history, incremental Zobrist key), FEN seeder, move generator, move     *)
(* sorter, transposition table and negamax searcher.                       *)
(*                                                                         *)
(* Encodings.  A Bitboard is the set of squares whose bit is set; `|` is   *)
(* union, `^` symmetric difference, `&` intersection.  Option::None is     *)
(* Nil.  A Zobrist key is the set of the indices of the random draws that  *)
(* are XOR-ed into it (draws are numbered in the order ZobristKeys::new    *)
(* makes them); XOR of keys is symmetric difference, key 0 is {}.          *)
(***************************************************************************)
EXTENDS Integers, Sequences, FiniteSets, TLC

\* ------------------------------------------------------------------------
\* Bounds of the model
\* ------------------------------------------------------------------------
\* plies made from the loaded position
MaxPly == 2
\* depth of a search
MaxDepth == 3
\* plies the searcher's driver plays from the loaded position
MaxSearchPly == 1
\* size_bits of the transposition table
SizeBits == 4

\* ------------------------------------------------------------------------
\* engine/definitions.rs
\* ------------------------------------------------------------------------
Nil == -1

White == 0
Black == 1

King == 0
Queen == 1
Rook == 2
Bishop == 3
Knight == 4
Pawn == 5
NoPiece == 6

A1 == 0
B1 == 1
C1 == 2
D1 == 3
E1 == 4
F1 == 5
G1 == 6
H1 == 7
A8 == 56
B8 == 57
C8 == 58
D8 == 59
E8 == 60
F8 == 61
G8 == 62
H8 == 63

WhiteKing == 1
WhiteQueen == 2
BlackKing == 4
BlackQueen == 8

PIECE_TYPES == 6
SIDES == 2
SQUARES == 64

MAX_GAME_MOVES == 1024
HALF_MOVE_MAX == 100
MAX_POSITION_SCORE == 100000
MIN_POSITION_SCORE == -100000

Squares == 0 .. (SQUARES - 1)
Sides == 0 .. (SIDES - 1)
PieceTypes == 0 .. (PIECE_TYPES - 1)

FileOf(sq) == sq % 8
RankOf(sq) == sq \div 8

\* x & bit != 0 for a u8 mask x and a single-bit value bit
HasBit(x, bit) == (x \div bit) % 2 = 1
\* x & !bit
ClearBit(x, bit) == IF HasBit(x, bit) THEN x - bit ELSE x
\* x | bit
SetBit(x, bit) == IF HasBit(x, bit) THEN x ELSE x + bit

\* LET x == value IN In(x), the value being computed first, and once
Let(value, In(_)) == IF {value} # {} THEN In(value) ELSE In(value)

\* a ^ b on bitboards and on Zobrist keys
Xor(a, b) == (a \ b) \cup (b \ a)

\* trailing_zeros of a bitboard: 64 on the empty board
trailing_zeros(bb) == IF bb = {} THEN SQUARES ELSE CHOOSE s \in bb : \A t \in bb : s <= t

\* the squares of a bitboard in ascending order, as the `for i in 0..64` loops
\* and the `while bb > 0 { trailing_zeros ... bb &= bb - 1 }` loops visit them
RECURSIVE Ascending(_)
Ascending(bb) ==
    IF bb = {} THEN <<>>
    ELSE LET s == trailing_zeros(bb) IN <<s>> \o Ascending(bb \ {s})

\* ------------------------------------------------------------------------
\* engine/board/zobrist.rs: the index of the draw that makes each key
\* ------------------------------------------------------------------------
CASTLING_PERMISSIONS == 16

zobrist_piece(side, piece, square) ==
    side * (PIECE_TYPES * SQUARES) + piece * SQUARES + square

zobrist_castling(castling_permissions) ==
    SIDES * PIECE_TYPES * SQUARES + castling_permissions

zobrist_side(side) ==
    SIDES * PIECE_TYPES * SQUARES + CASTLING_PERMISSIONS + side

zobrist_en_passant(en_passant) ==
    SIDES * PIECE_TYPES * SQUARES + CASTLING_PERMISSIONS + SIDES
        + (IF en_passant = Nil THEN SQUARES ELSE en_passant)

\* ------------------------------------------------------------------------
\* engine/move_generator/chess_move.rs
\* ------------------------------------------------------------------------
QUIET == 1
CAPTURE == 2
DOUBLE_PAWN_PUSH == 4
KING_CASTLE == 8
QUEEN_CASTLE == 16
EN_PASSANT == 32
PROMOTION == 64

ChessMove(piece, from, to, promotion, flags) ==
    [piece |-> piece, from |-> from, to |-> to, promotion |-> promotion,
     is_check |-> FALSE, is_checkmate |-> FALSE, flags |-> flags]

quiet(piece, from, to) == ChessMove(piece, from, to, Nil, QUIET)
capture(piece, from, to) == ChessMove(piece, from, to, Nil, CAPTURE)
double_pawn_push(from, to) == ChessMove(Pawn, from, to, Nil, DOUBLE_PAWN_PUSH)
castle(from, to, king_side) ==
    ChessMove(King, from, to, Nil, IF king_side THEN KING_CASTLE ELSE QUEEN_CASTLE)
en_passant(from, to) == ChessMove(Pawn, from, to, Nil, EN_PASSANT + CAPTURE)

\* a promotion that never carries the Capture flag
promotion_without_capture(from, to, promo, is_capt) ==
    ChessMove(Pawn, from, to, promo, PROMOTION)

promotion(from, to, promo, is_capt) ==
    ChessMove(Pawn, from, to, promo, IF is_capt THEN PROMOTION + CAPTURE ELSE PROMOTION)

is_quiet(mv) == HasBit(mv.flags, QUIET)
is_capture(mv) == HasBit(mv.flags, CAPTURE)
is_double_pawn_push(mv) == HasBit(mv.flags, DOUBLE_PAWN_PUSH)
is_king_castling(mv) == HasBit(mv.flags, KING_CASTLE)
is_queen_castling(mv) == HasBit(mv.flags, QUEEN_CASTLE)
is_en_passant(mv) == HasBit(mv.flags, EN_PASSANT)
is_promotion(mv) == HasBit(mv.flags, PROMOTION)

\* ------------------------------------------------------------------------
\* engine/board/game_state.rs, game_history.rs
\* ------------------------------------------------------------------------
GameStateNew ==
    [active_side |-> White, castling |-> 0, en_passant |-> Nil,
     half_move_clock |-> 0, full_move_number |-> 0, zobrist_key |-> {}]

\* faulty variant of SomeCapture: the capture is recorded for the capturing side
SomeCapture_other_side(piece, side, square) ==
    [some |-> TRUE, piece |-> piece, side |-> 1 - side, square |-> square]

NoCapture == [some |-> FALSE, piece |-> NoPiece, side |-> White, square |-> A1]
SomeCapture(piece, side, square) ==
    [some |-> TRUE, piece |-> piece, side |-> side, square |-> square]

RecordedMove(mv, prev_state, captured_piece) ==
    [mv |-> mv, prev_state |-> prev_state, captured_piece |-> captured_piece]

\* ------------------------------------------------------------------------
\* engine/board/board.rs.  A board value b carries the fields of Board;
\* game_history is the live prefix list[0 .. count-1]; panicked records that
\* the program aborted (an index out of bounds, unwrap of None/Err).
\* calls is a history variable, not a field of the program: it counts the
\* make_move and undo_move calls made on the board, and lifo turns FALSE for
\* good when undo_move is called more often than make_move has been.
\* ------------------------------------------------------------------------
NoCalls == [make_move |-> 0, undo_move |-> 0, lifo |-> TRUE]

BoardNew ==
    [sides |-> [s \in Sides |-> {}],
     pieces |-> [s \in Sides |-> [p \in PieceTypes |-> {}]],
     piece_list |-> [sq \in Squares |-> NoPiece],
     game_state |-> GameStateNew,
     game_history |-> <<>>,
     panicked |-> FALSE,
     calls |-> NoCalls]

Panic(b) == [b EXCEPT !.panicked = TRUE]

\* the fields of the program's Board in b, without the history variable
Position(b) == [b EXCEPT !.calls = NoCalls]

reset(b) ==
    [b EXCEPT !.sides = [s \in Sides |-> {}],
              !.pieces = [s \in Sides |-> [p \in PieceTypes |-> {}]],
              !.piece_list = [sq \in Squares |-> NoPiece],
              !.game_state = GameStateNew,
              !.game_history = <<>>]

get_pieces(b, side, piece) == b.pieces[side][piece]
get_side_occupancy(b, side) == b.sides[side]
get_full_occupancy(b) == b.sides[White] \cup b.sides[Black]
get_active_side(b) == b.game_state.active_side
get_opponent(b) == 1 - b.game_state.active_side
\* trailing_zeros of the king bitboard; Square::try_from(64) fails
get_king_square(b, side) == trailing_zeros(b.pieces[side][King])

\* faulty variant of remove_piece: the side occupancy keeps the square
remove_piece_keeps_side(b, side, piece, square) ==
    IF piece \notin PieceTypes \/ square \notin Squares THEN Panic(b)
    ELSE [b EXCEPT !.pieces[side][piece] = Xor(@, {square}),
                   !.piece_list[square] = NoPiece,
                   !.game_state.zobrist_key =
                        Xor(@, {zobrist_piece(side, piece, square)})]

remove_piece(b, side, piece, square) ==
    IF piece \notin PieceTypes \/ square \notin Squares THEN Panic(b)
    ELSE [b EXCEPT !.pieces[side][piece] = Xor(@, {square}),
                   !.sides[side] = Xor(@, {square}),
                   !.piece_list[square] = NoPiece,
                   !.game_state.zobrist_key =
                        Xor(@, {zobrist_piece(side, piece, square)})]

\* faulty variant of place_piece: the side occupancy misses the square
place_piece_skips_side(b, side, piece, square) ==
    IF piece \notin PieceTypes \/ square \notin Squares THEN Panic(b)
    ELSE [b EXCEPT !.pieces[side][piece] = @ \cup {square},
                   !.piece_list[square] = piece,
                   !.game_state.zobrist_key =
                        Xor(@, {zobrist_piece(side, piece, square)})]

\* faulty variant of place_piece: piece_list is not written
place_piece_skips_piece_list(b, side, piece, square) ==
    IF piece \notin PieceTypes \/ square \notin Squares THEN Panic(b)
    ELSE [b EXCEPT !.pieces[side][piece] = @ \cup {square},
                   !.sides[side] = @ \cup {square},
                   !.game_state.zobrist_key =
                        Xor(@, {zobrist_piece(side, piece, square)})]

place_piece(b, side, piece, square) ==
    IF piece \notin PieceTypes \/ square \notin Squares THEN Panic(b)
    ELSE [b EXCEPT !.pieces[side][piece] = @ \cup {square},
                   !.sides[side] = @ \cup {square},
                   !.piece_list[square] = piece,
                   !.game_state.zobrist_key =
                        Xor(@, {zobrist_piece(side, piece, square)})]

move_piece(b, side, piece, from, to) ==
    place_piece(remove_piece(b, side, piece, from), side, piece, to)

\* faulty variant of set_ep_square: the key of the previous en-passant value stays
set_ep_square_keeps_old_key(b, square) ==
    IF square \notin Squares THEN Panic(b)
    ELSE [b EXCEPT !.game_state.en_passant = square,
                   !.game_state.zobrist_key = Xor(@, {zobrist_en_passant(square)})]

set_ep_square(b, square) ==
    IF square \notin Squares THEN Panic(b)
    ELSE [b EXCEPT !.game_state.en_passant = square,
                   !.game_state.zobrist_key =
                        Xor(Xor(@, {zobrist_en_passant(b.game_state.en_passant)}),
                            {zobrist_en_passant(square)})]

\* a clear_ep_square that leaves the target standing
clear_ep_square_keeps_target(b) == b

clear_ep_square(b) ==
    [b EXCEPT !.game_state.en_passant = Nil,
              !.game_state.zobrist_key =
                   Xor(Xor(@, {zobrist_en_passant(b.game_state.en_passant)}),
                       {zobrist_en_passant(Nil)})]

switch_active_side(b) ==
    [b EXCEPT !.game_state.active_side = get_opponent(b),
              !.game_state.zobrist_key =
                   Xor(Xor(@, {zobrist_side(b.game_state.active_side)}),
                       {zobrist_side(get_opponent(b))})]

set_castling_rights(b, new_rights) ==
    [b EXCEPT !.game_state.castling = new_rights,
              !.game_state.zobrist_key =
                   Xor(Xor(@, {zobrist_castling(b.game_state.castling)}),
                       {zobrist_castling(new_rights)})]

\* a clearing by square that takes the other wing's right
clear_castling_rights_for_square_other_wing(b, rook_square) ==
    LET c == b.game_state.castling
        new_rights ==
            CASE rook_square = A1 -> ClearBit(c, WhiteKing)
              [] rook_square = H1 -> ClearBit(c, WhiteQueen)
              [] rook_square = A8 -> ClearBit(c, BlackKing)
              [] rook_square = H8 -> ClearBit(c, BlackQueen)
              [] OTHER -> c
    IN set_castling_rights(b, new_rights)

clear_castling_rights_for_square(b, rook_square) ==
    LET c == b.game_state.castling
        new_rights ==
            CASE rook_square = A1 -> ClearBit(c, WhiteQueen)
              [] rook_square = H1 -> ClearBit(c, WhiteKing)
              [] rook_square = A8 -> ClearBit(c, BlackQueen)
              [] rook_square = H8 -> ClearBit(c, BlackKing)
              [] OTHER -> c
    IN set_castling_rights(b, new_rights)

\* a clearing that takes the opponent's rights as well
clear_castling_rights_for_both_sides(b, side) == set_castling_rights(b, 0)

clear_castling_rights_for_side(b, side) ==
    LET c == b.game_state.castling
        new_rights ==
            IF side = White THEN ClearBit(ClearBit(c, WhiteKing), WhiteQueen)
            ELSE ClearBit(ClearBit(c, BlackKing), BlackQueen)
    IN set_castling_rights(b, new_rights)

\* piece_list[square]; an index outside the array aborts the program, which
\* the callers record with Panic, so the value returned there is never used
piece_at(b, square) == IF square \in Squares THEN b.piece_list[square] ELSE NoPiece

\* (rook_pos, rook_dest) of a castling move; unreachable!() otherwise
castle_rook_squares(to) ==
    CASE to = G1 -> <<H1, F1>>
      [] to = C1 -> <<A1, D1>>
      [] to = G8 -> <<H8, F8>>
      [] to = C8 -> <<A8, D8>>
      [] OTHER -> <<Nil, Nil>>

\* u8 / u16 additions
AddU8(x, y) == (x + y) % 256
AddU16(x, y) == (x + y) % 65536

make_move_quiet(b, mv) ==
    LET piece == piece_at(b, mv.from)
        side == get_active_side(b)
        b1 == IF piece # Pawn
              THEN LET bc == [b EXCEPT !.game_state.half_move_clock = AddU8(@, 1)]
                   IN CASE piece = King -> clear_castling_rights_for_side(bc, side)
                        [] piece = Rook -> clear_castling_rights_for_square(bc, mv.from)
                        [] OTHER -> bc
              ELSE [b EXCEPT !.game_state.half_move_clock = 0]
        b2 == move_piece(b1, side, piece_at(b1, mv.from), mv.from, mv.to)
    IN clear_ep_square(b2)

\* a double pawn push that takes the square the pawn lands on for the target
make_move_double_pawn_push_target_on_to(b, mv) ==
    LET side == get_active_side(b)
        b1 == move_piece(b, side, piece_at(b, mv.from), mv.from, mv.to)
        b2 == set_ep_square(b1, mv.to)
    IN [b2 EXCEPT !.game_state.half_move_clock = 0]

make_move_double_pawn_push(b, mv) ==
    LET side == get_active_side(b)
        b1 == move_piece(b, side, piece_at(b, mv.from), mv.from, mv.to)
        b2 == set_ep_square(b1, IF side = White THEN mv.to - 8 ELSE mv.to + 8)
    IN [b2 EXCEPT !.game_state.half_move_clock = 0]

\* castling that leaves the half-move clock as it is
make_move_castling_keeps_clock(b, mv) ==
    LET side == get_active_side(b)
        rk == castle_rook_squares(mv.to)
        b1 == move_piece(b, side, piece_at(b, mv.from), mv.from, mv.to)
        b2 == move_piece(b1, side, piece_at(b1, rk[1]), rk[1], rk[2])
        b3 == clear_castling_rights_for_side(b2, side)
    IN IF rk[1] = Nil THEN Panic(b) ELSE clear_ep_square(b3)

make_move_castling(b, mv) ==
    LET side == get_active_side(b)
        rk == castle_rook_squares(mv.to)
        rook_pos == rk[1]
        rook_dest == rk[2]
        b1 == move_piece(b, side, piece_at(b, mv.from), mv.from, mv.to)
        b2 == move_piece(b1, side, piece_at(b1, rook_pos), rook_pos, rook_dest)
        b3 == clear_castling_rights_for_side(b2, side)
        b4 == [b3 EXCEPT !.game_state.half_move_clock = AddU8(@, 1)]
    IN IF rook_pos = Nil THEN Panic(b) ELSE clear_ep_square(b4)

\* the capture branch; returns the board and the local captured_piece
make_move_capture(b, mv) ==
    LET side == get_active_side(b)
        opp == get_opponent(b)
        ep == b.game_state.en_passant
        piece_square == IF side = White THEN ep - 8 ELSE ep + 8
        captured_piece ==
            IF is_en_passant(mv) THEN piece_at(b, piece_square) ELSE piece_at(b, mv.to)
        b1 == IF is_en_passant(mv)
              THEN IF ep = Nil THEN Panic(b)
                   ELSE remove_piece(b, opp, captured_piece, piece_square)
              ELSE LET br == remove_piece(b, opp, captured_piece, mv.to)
                   IN IF captured_piece = Rook
                      THEN clear_castling_rights_for_square(br, mv.to)
                      ELSE br
        b2 == IF is_promotion(mv)
              THEN place_piece(remove_piece(b1, side, piece_at(b1, mv.from), mv.from),
                               side, IF mv.promotion = Nil THEN NoPiece ELSE mv.promotion,
                               mv.to)
              ELSE move_piece(b1, side, piece_at(b1, mv.from), mv.from, mv.to)
        b3 == [b2 EXCEPT !.game_state.half_move_clock = 0]
    IN [board |-> clear_ep_square(b3), captured_piece |-> captured_piece]

make_move_promotion(b, mv) ==
    LET side == get_active_side(b)
        b1 == remove_piece(b, side, piece_at(b, mv.from), mv.from)
        b2 == place_piece(b1, side, IF mv.promotion = Nil THEN NoPiece ELSE mv.promotion,
                          mv.to)
        b3 == [b2 EXCEPT !.game_state.half_move_clock = 0]
    IN clear_ep_square(b3)

called_make_move(b) == [b EXCEPT !.calls.make_move = @ + 1]

called_undo_move(b) ==
    [b EXCEPT !.calls.undo_move = @ + 1,
              !.calls.lifo = @ /\ b.calls.undo_move < b.calls.make_move]

\* a push that does not check the index against the length of the list
history_push_unchecked(b, entry) == [b EXCEPT !.game_history = Append(@, entry)]

\* GameHistory::push: list[count] = entry; count += 1
history_push(b, entry) ==
    IF Len(b.game_history) >= MAX_GAME_MOVES THEN Panic(b)
    ELSE [b EXCEPT !.game_history = Append(@, entry)]

\* the if / else-if chain of make_move over the kinds of move; the board and
\* the local captured_piece
make_move_by_kind(b, mv) ==
    IF is_quiet(mv)
    THEN [board |-> make_move_quiet(b, mv), captured_piece |-> NoPiece]
    ELSE IF is_double_pawn_push(mv)
    THEN [board |-> make_move_double_pawn_push(b, mv), captured_piece |-> NoPiece]
    ELSE IF is_king_castling(mv) \/ is_queen_castling(mv)
    THEN [board |-> make_move_castling(b, mv), captured_piece |-> NoPiece]
    ELSE IF is_capture(mv)
    THEN make_move_capture(b, mv)
    ELSE IF is_promotion(mv)
    THEN [board |-> make_move_promotion(b, mv), captured_piece |-> NoPiece]
    ELSE [board |-> b, captured_piece |-> NoPiece]

\* the end of make_move: full-move number, the history entry
\* a record that takes every captured piece to have stood on mv.to
make_move_record_captured_on_to(b, mv, prev_state, side, captured_piece) ==
    LET b2 == IF side = Black
              THEN [b EXCEPT !.game_state.full_move_number = AddU16(@, 1)]
              ELSE b
        captured ==
            IF captured_piece # NoPiece
            THEN SomeCapture(captured_piece, get_opponent(b), mv.to)
            ELSE NoCapture
    IN history_push(b2, RecordedMove(mv, prev_state, captured))

make_move_record(b, mv, prev_state, side, captured_piece) ==
    LET b2 == IF side = Black
              THEN [b EXCEPT !.game_state.full_move_number = AddU16(@, 1)]
              ELSE b
        captured_square ==
            IF is_en_passant(mv)
            THEN (IF side = White THEN mv.to - 8 ELSE mv.to + 8)
            ELSE mv.to
        captured ==
            IF captured_piece # NoPiece
            THEN SomeCapture(captured_piece, get_opponent(b), captured_square)
            ELSE NoCapture
    IN IF captured_piece # NoPiece /\ captured_square \notin Squares
       THEN Panic(b2)
       ELSE history_push(b2, RecordedMove(mv, prev_state, captured))

make_move(b, mv) ==
    Let(make_move_by_kind(b, mv), LAMBDA br :
        called_make_move(switch_active_side(
            make_move_record(br.board, mv, b.game_state, get_active_side(b),
                             br.captured_piece))))

undo_move(b) ==
    IF Len(b.game_history) = 0 THEN called_undo_move(b)
    ELSE
    LET last_move == b.game_history[Len(b.game_history)]
        bp == [b EXCEPT !.game_history = SubSeq(@, 1, Len(@) - 1)]
        prev_state == last_move.prev_state
        mv == last_move.mv
        prev_moved_piece == piece_at(bp, mv.to)
        b1 == IF is_promotion(mv)
              THEN place_piece(remove_piece(bp, prev_state.active_side,
                                            prev_moved_piece, mv.to),
                               prev_state.active_side, Pawn, mv.from)
              ELSE move_piece(bp, prev_state.active_side, prev_moved_piece,
                              mv.to, mv.from)
        rk == castle_rook_squares(mv.to)
        b2 == IF is_queen_castling(mv) \/ is_king_castling(mv)
              THEN IF rk[1] = Nil THEN Panic(b1)
                   ELSE move_piece(b1, prev_state.active_side,
                                   piece_at(b1, rk[2]), rk[2], rk[1])
              ELSE b1
        b3 == IF last_move.captured_piece.some
              THEN place_piece(b2, last_move.captured_piece.side,
                               last_move.captured_piece.piece,
                               last_move.captured_piece.square)
              ELSE b2
    IN called_undo_move([b3 EXCEPT !.game_state = prev_state])

\* ------------------------------------------------------------------------
\* Attack tables (leaper tables and the magic lookup of sliding attacks):
\* each entry is the set of squares the piece attacks from that square; a
\* sliding ray stops at, and includes, the first blocker.
\* ------------------------------------------------------------------------
OnBoard(f, r) == f \in 0 .. 7 /\ r \in 0 .. 7

Leaper(sq, deltas) ==
    { (RankOf(sq) + d[2]) * 8 + FileOf(sq) + d[1] :
        d \in { e \in deltas : OnBoard(FileOf(sq) + e[1], RankOf(sq) + e[2]) } }

KingDeltas == { <<-1, -1>>, <<0, -1>>, <<1, -1>>, <<-1, 0>>,
                <<1, 0>>, <<-1, 1>>, <<0, 1>>, <<1, 1>> }
KnightDeltas == { <<-2, -1>>, <<-1, -2>>, <<1, -2>>, <<2, -1>>,
                  <<-2, 1>>, <<-1, 2>>, <<1, 2>>, <<2, 1>> }
RookDirs == { <<1, 0>>, <<-1, 0>>, <<0, 1>>, <<0, -1>> }
BishopDirs == { <<1, 1>>, <<-1, 1>>, <<1, -1>>, <<-1, -1>> }

KING_BASE_ATTACKS == [sq \in Squares |-> Leaper(sq, KingDeltas)]
KNIGHT_BASE_ATTACKS == [sq \in Squares |-> Leaper(sq, KnightDeltas)]
PAWN_WHITE_ATTACKS == [sq \in Squares |-> Leaper(sq, { <<-1, 1>>, <<1, 1>> })]
PAWN_BLACK_ATTACKS == [sq \in Squares |-> Leaper(sq, { <<-1, -1>>, <<1, -1>> })]

\* the squares of the ray from sq in direction d, nearest first
RayLen(sq, d) ==
    LET nf == IF d[1] = 1 THEN 7 - FileOf(sq) ELSE IF d[1] = -1 THEN FileOf(sq) ELSE 7
        nr == IF d[2] = 1 THEN 7 - RankOf(sq) ELSE IF d[2] = -1 THEN RankOf(sq) ELSE 7
    IN IF nf < nr THEN nf ELSE nr

RAYS == [sq \in Squares |-> [d \in RookDirs \cup BishopDirs |->
            [i \in 1 .. RayLen(sq, d) |-> sq + i * (d[1] + 8 * d[2])]]]

RayAttacks(ray, occupancy) ==
    LET blockers == { i \in 1 .. Len(ray) : ray[i] \in occupancy }
        last == IF blockers = {} THEN Len(ray)
                ELSE CHOOSE i \in blockers : \A j \in blockers : i <= j
    IN { ray[i] : i \in 1 .. last }

rook_attacks(sq, occupancy) ==
    UNION { RayAttacks(RAYS[sq][d], occupancy) : d \in RookDirs }

bishop_attacks(sq, occupancy) ==
    UNION { RayAttacks(RAYS[sq][d], occupancy) : d \in BishopDirs }

\* ------------------------------------------------------------------------
\* engine/move_generator/move_generator.rs
\* ------------------------------------------------------------------------
\* faulty variant of is_square_attacked: attacking pawns are not looked for
is_square_attacked_but_by_pawns(b, square, by_side) ==
    LET occupancy == get_full_occupancy(b)
        queens == get_pieces(b, by_side, Queen)
    IN \/ get_pieces(b, by_side, Knight) \cap KNIGHT_BASE_ATTACKS[square] # {}
       \/ get_pieces(b, by_side, King) \cap KING_BASE_ATTACKS[square] # {}
       \/ rook_attacks(square, occupancy)
             \cap (get_pieces(b, by_side, Rook) \cup queens) # {}
       \/ bishop_attacks(square, occupancy)
             \cap (get_pieces(b, by_side, Bishop) \cup queens) # {}

is_square_attacked(b, square, by_side) ==
    LET occupancy == get_full_occupancy(b)
        pawns == get_pieces(b, by_side, Pawn)
        rooks == get_pieces(b, by_side, Rook)
        knights == get_pieces(b, by_side, Knight)
        bishops == get_pieces(b, by_side, Bishop)
        queens == get_pieces(b, by_side, Queen)
        kings == get_pieces(b, by_side, King)
        pawn_attackers == IF by_side = White THEN PAWN_BLACK_ATTACKS[square]
                          ELSE PAWN_WHITE_ATTACKS[square]
    IN \/ pawns \cap pawn_attackers # {}
       \/ knights \cap KNIGHT_BASE_ATTACKS[square] # {}
       \/ kings \cap KING_BASE_ATTACKS[square] # {}
       \/ rook_attacks(square, occupancy) \cap (rooks \cup queens) # {}
       \/ bishop_attacks(square, occupancy) \cap (bishops \cup queens) # {}

\* faulty variant of is_king_in_check: the attackers looked for are the king's own side
is_king_in_check_by_own_side(b, side) ==
    /\ get_king_square(b, side) \in Squares
    /\ is_square_attacked(b, get_king_square(b, side), side)

\* get_king_square unwraps Square::try_from(64) when the side has no king
is_king_in_check(b, side) ==
    /\ get_king_square(b, side) \in Squares
    /\ is_square_attacked(b, get_king_square(b, side), 1 - side)

PromotionPieces == <<Queen, Rook, Bishop, Knight>>

pawn_target_moves(b, from, target, promo_rank, enemy_pieces) ==
    IF target \in enemy_pieces
    THEN IF promo_rank
         THEN [k \in 1 .. 4 |-> promotion(from, target, PromotionPieces[k], TRUE)]
         ELSE <<capture(Pawn, from, target)>>
    ELSE IF b.game_state.en_passant # Nil /\ b.game_state.en_passant = target
         THEN <<en_passant(from, target)>>
         ELSE <<>>

generate_pawn_moves(b, from, side, full_occupancy, enemy_pieces) ==
    LET single_push == IF side = White THEN from + 8 ELSE from - 8
        double_push == IF side = White THEN from + 16 ELSE from - 16
        promo_rank == IF side = White THEN RankOf(from) = 6 ELSE RankOf(from) = 1
        double_rank == IF side = White THEN RankOf(from) = 1 ELSE RankOf(from) = 6
        left_capture == IF side = White THEN from + 7 ELSE from - 7
        right_capture == IF side = White THEN from + 9 ELSE from - 9
        left_edge == FileOf(from) = 0
        right_edge == FileOf(from) = 7
        pushes ==
            IF single_push \in Squares /\ single_push \notin full_occupancy
            THEN (IF promo_rank
                  THEN [k \in 1 .. 4 |->
                            promotion(from, single_push, PromotionPieces[k], FALSE)]
                  ELSE <<quiet(Pawn, from, single_push)>>)
                 \o (IF double_push \in Squares /\ double_rank
                        /\ double_push \notin full_occupancy
                     THEN <<double_pawn_push(from, double_push)>>
                     ELSE <<>>)
            ELSE <<>>
        lefts ==
            IF /\ left_capture \in Squares
               /\ ~(side = White /\ left_edge)
               /\ ~(side = Black /\ right_edge)
            THEN pawn_target_moves(b, from, left_capture, promo_rank, enemy_pieces)
            ELSE <<>>
        rights ==
            IF /\ right_capture \in Squares
               /\ ~(side = White /\ right_edge)
               /\ ~(side = Black /\ left_edge)
            THEN pawn_target_moves(b, from, right_capture, promo_rank, enemy_pieces)
            ELSE <<>>
    IN pushes \o lefts \o rights

\* knight moves that never capture
generate_knight_moves_never_capture(from, own_pieces, enemy_pieces) ==
    LET targets == Ascending(KNIGHT_BASE_ATTACKS[from]
                                \ (own_pieces \cup enemy_pieces))
    IN [k \in 1 .. Len(targets) |-> quiet(Knight, from, targets[k])]

generate_knight_moves(from, own_pieces, enemy_pieces) ==
    LET targets == Ascending(KNIGHT_BASE_ATTACKS[from] \ own_pieces)
    IN [k \in 1 .. Len(targets) |->
            IF targets[k] \notin enemy_pieces THEN quiet(Knight, from, targets[k])
            ELSE capture(Knight, from, targets[k])]

slider_moves(b, from, attacks, enemy_pieces, piece_type) ==
    LET targets == Ascending({ i \in attacks :
                        b.piece_list[i] = NoPiece \/ i \in enemy_pieces })
    IN [k \in 1 .. Len(targets) |->
            IF b.piece_list[targets[k]] = NoPiece
            THEN quiet(piece_type, from, targets[k])
            ELSE capture(piece_type, from, targets[k])]

generate_bishop_moves(b, from, full_occupancy, enemy_pieces, piece_type) ==
    slider_moves(b, from, bishop_attacks(from, full_occupancy), enemy_pieces, piece_type)

generate_rook_moves(b, from, full_occupancy, enemy_pieces, piece_type) ==
    slider_moves(b, from, rook_attacks(from, full_occupancy), enemy_pieces, piece_type)

generate_king_moves(b, from, side, own_pieces, enemy_pieces) ==
    LET targets == Ascending(KING_BASE_ATTACKS[from] \ own_pieces)
        normal == [k \in 1 .. Len(targets) |->
                      IF targets[k] \notin enemy_pieces THEN quiet(King, from, targets[k])
                      ELSE capture(King, from, targets[k])]
        castling_rights == b.game_state.castling
        kingisde_flag == IF side = White THEN WhiteKing ELSE BlackKing
        queenside_flag == IF side = White THEN WhiteQueen ELSE BlackQueen
        kingside_squares == IF side = White THEN <<E1, F1, G1, H1>>
                            ELSE <<E8, F8, G8, H8>>
        queenside_squares == IF side = White THEN <<E1, D1, C1, B1, A1>>
                             ELSE <<E8, D8, C8, B8, A8>>
        opponent == IF side = White THEN Black ELSE White
        kingside ==
            IF /\ HasBit(castling_rights, kingisde_flag)
               /\ b.piece_list[kingside_squares[1]] = King
               /\ b.piece_list[kingside_squares[2]] = NoPiece
               /\ b.piece_list[kingside_squares[3]] = NoPiece
               /\ b.piece_list[kingside_squares[4]] = Rook
               /\ ~is_square_attacked(b, kingside_squares[1], opponent)
               /\ ~is_square_attacked(b, kingside_squares[2], opponent)
               /\ ~is_square_attacked(b, kingside_squares[3], opponent)
            THEN <<castle(kingside_squares[1], kingside_squares[3], TRUE)>>
            ELSE <<>>
        queenside ==
            IF /\ HasBit(castling_rights, queenside_flag)
               /\ b.piece_list[queenside_squares[1]] = King
               /\ b.piece_list[queenside_squares[2]] = NoPiece
               /\ b.piece_list[queenside_squares[3]] = NoPiece
               /\ b.piece_list[queenside_squares[4]] = NoPiece
               /\ b.piece_list[queenside_squares[5]] = Rook
               /\ ~is_square_attacked(b, queenside_squares[1], opponent)
               /\ ~is_square_attacked(b, queenside_squares[2], opponent)
               /\ ~is_square_attacked(b, queenside_squares[3], opponent)
            THEN <<castle(queenside_squares[1], queenside_squares[3], FALSE)>>
            ELSE <<>>
    IN normal \o kingside \o queenside

\* the moves of the piece standing on square i (one arm of the match)
generate_piece_moves(b, i, side, full_occupancy, own_pieces, enemy_pieces) ==
    LET piece == b.piece_list[i]
    IN CASE piece = Pawn ->
                generate_pawn_moves(b, i, side, full_occupancy, enemy_pieces)
         [] piece = Knight -> generate_knight_moves(i, own_pieces, enemy_pieces)
         [] piece = Bishop ->
                generate_bishop_moves(b, i, full_occupancy, enemy_pieces, Bishop)
         [] piece = Rook ->
                generate_rook_moves(b, i, full_occupancy, enemy_pieces, Rook)
         [] piece = Queen ->
                generate_rook_moves(b, i, full_occupancy, enemy_pieces, Queen)
                \o generate_bishop_moves(b, i, full_occupancy, enemy_pieces, Queen)
         [] piece = King -> generate_king_moves(b, i, side, own_pieces, enemy_pieces)
         [] OTHER -> <<>>

RECURSIVE Flatten(_)
Flatten(ss) == IF ss = <<>> THEN <<>> ELSE Head(ss) \o Flatten(Tail(ss))

generate_pseudo_legal_moves(b) ==
    LET side == b.game_state.active_side
        full_occupancy == get_full_occupancy(b)
        own_pieces == get_side_occupancy(b, side)
        enemy_pieces == full_occupancy \ own_pieces
        froms == Ascending(own_pieces)
    IN Flatten([k \in 1 .. Len(froms) |->
            generate_piece_moves(b, froms[k], side, full_occupancy,
                                 own_pieces, enemy_pieces)])

\* Piece::None => unreachable!() in generate_pseudo_legal_moves
pseudo_legal_unreachable(b) ==
    \E i \in get_side_occupancy(b, b.game_state.active_side) : b.piece_list[i] = NoPiece

\* faulty variant of is_legal_move: the king tested is the one of the side
\* that did not move
is_legal_move_other_king(b, mv) ==
    Let(make_move(b, mv), LAMBDA b1 :
        IF b1.panicked \/ get_king_square(b1, get_active_side(b1)) \notin Squares
        THEN [result |-> FALSE, board |-> Panic(b1)]
        ELSE [result |-> ~is_king_in_check(b1, get_active_side(b1)),
              board |-> undo_move(b1)])

\* make_move, test the mover's king, undo_move; the board is the caller's
\* board, mutated in place, so it is returned along with the answer
is_legal_move(b, mv) ==
    Let(make_move(b, mv), LAMBDA b1 :
        IF b1.panicked \/ get_king_square(b1, get_opponent(b1)) \notin Squares
        THEN [result |-> FALSE, board |-> Panic(b1)]
        ELSE [result |-> ~is_king_in_check(b1, get_opponent(b1)),
              board |-> undo_move(b1)])

\* pseudo_moves.into_iter().filter(is_legal_move).collect(), over the moves
\* lo .. hi in their order: the first half of them, then the second half
RECURSIVE filter_legal_moves(_, _, _, _)
filter_legal_moves(b, pseudo_moves, lo, hi) ==
    IF lo > hi \/ b.panicked THEN [moves |-> <<>>, board |-> b]
    ELSE IF lo = hi
    THEN Let(is_legal_move(b, pseudo_moves[lo]), LAMBDA r :
             [moves |-> IF r.result THEN <<pseudo_moves[lo]>> ELSE <<>>,
              board |-> r.board])
    ELSE Let(filter_legal_moves(b, pseudo_moves, lo, (lo + hi) \div 2),
             LAMBDA first :
         Let(filter_legal_moves(first.board, pseudo_moves,
                                (lo + hi) \div 2 + 1, hi), LAMBDA rest :
             [moves |-> first.moves \o rest.moves, board |-> rest.board]))

generate_legal_moves(b) ==
    IF pseudo_legal_unreachable(b) THEN [moves |-> <<>>, board |-> Panic(b)]
    ELSE Let(generate_pseudo_legal_moves(b), LAMBDA pseudo_moves :
             filter_legal_moves(b, pseudo_moves, 1, Len(pseudo_moves)))

\* pseudo_moves.into_iter().any(is_legal_move), over the moves lo .. hi in
\* their order: the first half of them, then, if none was legal, the second
RECURSIVE any_legal_move(_, _, _, _)
any_legal_move(b, pseudo_moves, lo, hi) ==
    IF lo > hi \/ b.panicked THEN [result |-> FALSE, board |-> b]
    ELSE IF lo = hi THEN is_legal_move(b, pseudo_moves[lo])
    ELSE Let(any_legal_move(b, pseudo_moves, lo, (lo + hi) \div 2),
             LAMBDA first :
             IF first.result THEN first
             ELSE any_legal_move(first.board, pseudo_moves,
                                 (lo + hi) \div 2 + 1, hi))

exist_legal_moves(b) ==
    IF pseudo_legal_unreachable(b) THEN [result |-> FALSE, board |-> Panic(b)]
    ELSE Let(generate_pseudo_legal_moves(b), LAMBDA pseudo_moves :
             any_legal_move(b, pseudo_moves, 1, Len(pseudo_moves)))

\* faulty variant of annotate_move: every check is taken for a checkmate
annotate_move_check_is_checkmate(b, mv) ==
    Let(make_move(b, mv), LAMBDA b1 :
        IF b1.panicked \/ get_king_square(b1, get_active_side(b1)) \notin Squares
        THEN [mv |-> mv, board |-> Panic(b1)]
        ELSE Let(is_king_in_check(b1, get_active_side(b1)), LAMBDA check :
                 [mv |-> [mv EXCEPT !.is_check = check, !.is_checkmate = check],
                  board |-> undo_move(b1)]))

\* the body of the `for mv in &mut moves` loop of generate_moves
annotate_move(b, mv) ==
    Let(make_move(b, mv), LAMBDA b1 :
        IF b1.panicked \/ get_king_square(b1, get_active_side(b1)) \notin Squares
        THEN [mv |-> mv, board |-> Panic(b1)]
        ELSE Let(is_king_in_check(b1, get_active_side(b1)), LAMBDA check :
             Let(IF check THEN exist_legal_moves(b1)
                 ELSE [result |-> TRUE, board |-> b1], LAMBDA e :
                 [mv |-> [mv EXCEPT !.is_check = check,
                                    !.is_checkmate = check /\ ~e.result],
                  board |-> undo_move(e.board)])))

\* the `for mv in &mut moves` loop over the moves lo .. hi in their order:
\* the first half of them, then the second half
RECURSIVE annotate_moves(_, _, _, _)
annotate_moves(b, moves, lo, hi) ==
    IF lo > hi \/ b.panicked THEN [moves |-> <<>>, board |-> b]
    ELSE IF lo = hi
    THEN Let(annotate_move(b, moves[lo]), LAMBDA r :
             [moves |-> <<r.mv>>, board |-> r.board])
    ELSE Let(annotate_moves(b, moves, lo, (lo + hi) \div 2), LAMBDA first :
         Let(annotate_moves(first.board, moves, (lo + hi) \div 2 + 1, hi),
             LAMBDA rest :
             [moves |-> first.moves \o rest.moves, board |-> rest.board]))

\* ------------------------------------------------------------------------
\* engine/move_generator/move_sorter.rs
\* ------------------------------------------------------------------------
piece_scores(piece) ==
    CASE piece = Pawn -> 100
      [] piece = Knight -> 300
      [] piece = Bishop -> 325
      [] piece = Rook -> 500
      [] piece = Queen -> 900
      [] piece = King -> 5000
      [] OTHER -> Nil

\* mvv_lva_scores.get(&(attacker, victim)).cloned().unwrap_or(0)
mvv_lva_scores(attacker, victim) ==
    IF attacker \in PieceTypes /\ victim \in PieceTypes
    THEN piece_scores(victim) * 10 - piece_scores(attacker)
    ELSE 0

move_score(b, mv) ==
    IF mv.is_checkmate THEN 100000
    ELSE IF is_capture(mv)
         THEN mvv_lva_scores(b.piece_list[mv.from], b.piece_list[mv.to])
         ELSE IF is_promotion(mv)
              THEN (IF mv.promotion \in PieceTypes THEN piece_scores(mv.promotion) ELSE 0)
              ELSE IF mv.is_check THEN 500 ELSE 0

\* the scores present, highest first
RECURSIVE Descending(_)
Descending(S) ==
    IF S = {} THEN <<>>
    ELSE LET m == CHOOSE x \in S : \A y \in S : y <= x
         IN <<m>> \o Descending(S \ {m})

\* sort_by(|a, b| b.score.cmp(&a.score)): stable, descending by score
sort_moves(b, moves) ==
    LET scores == Descending({ move_score(b, moves[k]) : k \in 1 .. Len(moves) })
    IN Flatten([j \in 1 .. Len(scores) |->
            SelectSeq(moves, LAMBDA m : move_score(b, m) = scores[j])])

generate_moves(b) ==
    Let(generate_legal_moves(b), LAMBDA legal :
    Let(annotate_moves(legal.board, legal.moves, 1, Len(legal.moves)), LAMBDA ann :
        IF ann.board.panicked THEN [moves |-> <<>>, board |-> ann.board]
        ELSE [moves |-> sort_moves(ann.board, ann.moves), board |-> ann.board]))

\* ------------------------------------------------------------------------
\* engine/board/fen.rs.  A FEN string is the sequence of its characters.
\* Each part parser mutates the board in place and returns Ok or an error;
\* a parser result is [status, board].
\* ------------------------------------------------------------------------
FEN_PARTS_COUNT == 6
SHORT_LENGTH == 4
SPLITTER == "/"
DASH == "-"
EM_DASH == "en-dash"
SPACE == " "

DigitChars == <<"0", "1", "2", "3", "4", "5", "6", "7", "8", "9">>
DigitOf(c) == (CHOOSE d \in 1 .. 10 : DigitChars[d] = c) - 1
IsDigit(c) == \E d \in 1 .. 10 : DigitChars[d] = c

BlackPieceChars == <<"k", "q", "r", "b", "n", "p">>
WhitePieceChars == <<"K", "Q", "R", "B", "N", "P">>
IsBlackPieceChar(c) == \E p \in 1 .. 6 : BlackPieceChars[p] = c
IsWhitePieceChar(c) == \E p \in 1 .. 6 : WhitePieceChars[p] = c
PieceOfChar(c) ==
    IF IsBlackPieceChar(c) THEN (CHOOSE p \in 1 .. 6 : BlackPieceChars[p] = c) - 1
    ELSE (CHOOSE p \in 1 .. 6 : WhitePieceChars[p] = c) - 1

FileChars == <<"a", "b", "c", "d", "e", "f", "g", "h">>
FileCharsUpper == <<"A", "B", "C", "D", "E", "F", "G", "H">>

\* fen_string.replace(EM_DASH, "-").split(' ')
SplitOnSpace(fen_string) ==
    LET chars == [i \in 1 .. Len(fen_string) |->
                     IF fen_string[i] = EM_DASH THEN DASH ELSE fen_string[i]]
        cuts == Ascending({0, Len(chars) + 1}
                          \cup { i \in 1 .. Len(chars) : chars[i] = SPACE })
    IN [k \in 1 .. Len(cuts) - 1 |-> SubSeq(chars, cuts[k] + 1, cuts[k + 1] - 1)]

split_fen_string(fen_string) ==
    LET parts == SplitOnSpace(fen_string)
        full == IF Len(parts) = SHORT_LENGTH THEN parts \o << <<"0">>, <<"1">> >>
                ELSE parts
    IN IF Len(full) # FEN_PARTS_COUNT
       THEN [status |-> "IncorrectLengthError", parts |-> <<>>]
       ELSE [status |-> "Ok", parts |-> full]

\* one iteration of `for c in part.chars()` of FenParser::pieces on the loop
\* state st = [status, board, rank, file]; overflow_checks is the build's
\* setting for u8 arithmetic (panic, or wrap)
fen_pieces_step(st, c, overflow_checks) ==
    LET raw == st.rank * 8 + st.file
        square == raw % 256
        placed ==
            IF IsBlackPieceChar(c) \/ IsWhitePieceChar(c)
            THEN IF square \notin Squares THEN [st EXCEPT !.status = "Panic"]
                 ELSE [st EXCEPT
                        !.board.pieces[IF IsBlackPieceChar(c) THEN Black ELSE White]
                                      [PieceOfChar(c)] = @ \cup {square},
                        !.file = st.file + 1]
            ELSE IF IsDigit(c) /\ DigitOf(c) \in 1 .. 8
            THEN [st EXCEPT !.file = st.file + DigitOf(c)]
            ELSE IF c = SPLITTER
            THEN IF st.file # 8 THEN [st EXCEPT !.status = "PieceSquarePartError"]
                 ELSE IF st.rank = 0
                 THEN IF overflow_checks THEN [st EXCEPT !.status = "Panic"]
                      ELSE [st EXCEPT !.rank = 255, !.file = 0]
                 ELSE [st EXCEPT !.rank = st.rank - 1, !.file = 0]
            ELSE [st EXCEPT !.status = "PieceSquarePartError"]
    IN IF st.status # "Ok" THEN st
       ELSE IF overflow_checks /\ (raw > 255 \/ (placed.status = "Ok" /\ placed.file > 255))
       THEN [st EXCEPT !.status = "Panic"]
       ELSE [placed EXCEPT !.file = @ % 256]

\* the `for c in part.chars()` loop over the characters lo .. hi in their
\* order: the first half of them, then the second half
RECURSIVE fen_pieces_loop(_, _, _, _, _)
fen_pieces_loop(st, part, lo, hi, overflow_checks) ==
    IF lo > hi \/ st.status # "Ok" THEN st
    ELSE IF lo = hi THEN fen_pieces_step(st, part[lo], overflow_checks)
    ELSE Let(fen_pieces_loop(st, part, lo, (lo + hi) \div 2, overflow_checks),
             LAMBDA first :
             fen_pieces_loop(first, part, (lo + hi) \div 2 + 1, hi,
                             overflow_checks))

fen_pieces(b, part, overflow_checks) ==
    LET st == fen_pieces_loop([status |-> "Ok", board |-> b, rank |-> 7, file |-> 0],
                              part, 1, Len(part), overflow_checks)
    IN [status |-> st.status, board |-> st.board]

fen_color(b, part) ==
    IF Len(part) = 1 /\ part[1] \in {"w", "b"}
    THEN [status |-> "Ok",
          board |-> [b EXCEPT !.game_state.active_side =
                                IF part[1] = "w" THEN White ELSE Black]]
    ELSE [status |-> "PlaySidePartError", board |-> b]

RECURSIVE fen_castling_loop(_, _, _)
fen_castling_loop(st, part, i) ==
    IF i > Len(part) \/ st.status # "Ok" THEN st
    ELSE LET c == part[i]
             bit == CASE c = "K" -> WhiteKing
                      [] c = "Q" -> WhiteQueen
                      [] c = "k" -> BlackKing
                      [] c = "q" -> BlackQueen
                      [] OTHER -> 0
             next ==
                IF bit # 0
                THEN [st EXCEPT !.board.game_state.castling = SetBit(@, bit)]
                ELSE IF c = "-" THEN st
                ELSE [st EXCEPT !.status = "CastlingRightsPartError"]
         IN fen_castling_loop(next, part, i + 1)

fen_castling(b, part) ==
    IF Len(part) \in 1 .. 4
    THEN fen_castling_loop([status |-> "Ok", board |-> b], part, 1)
    ELSE [status |-> "CastlingRightsPartError", board |-> b]

\* Square::from_str of a two-character part (case-insensitive), Nil if Err
square_from_str(part) ==
    LET files == { f \in 1 .. 8 : FileChars[f] = part[1] \/ FileCharsUpper[f] = part[1] }
    IN IF files # {} /\ IsDigit(part[2]) /\ DigitOf(part[2]) \in 1 .. 8
       THEN (DigitOf(part[2]) - 1) * 8 + (CHOOSE f \in files : TRUE) - 1
       ELSE Nil

fen_en_passant(b, part) ==
    IF Len(part) = 1 /\ part[1] = DASH THEN [status |-> "Ok", board |-> b]
    ELSE IF Len(part) = 2
    THEN LET square == square_from_str(part)
         IN IF square # Nil /\ (RankOf(square) = 2 \/ RankOf(square) = 5)
            THEN [status |-> "Ok",
                  board |-> [b EXCEPT !.game_state.en_passant = square]]
            ELSE [status |-> "EnPassantPartError", board |-> b]
    ELSE [status |-> "EnPassantPartError", board |-> b]

\* str::parse::<uN>(): an optional '+', then one or more digits, value <= max
RECURSIVE DigitsValue(_, _)
DigitsValue(ds, acc) ==
    IF ds = <<>> THEN acc ELSE DigitsValue(Tail(ds), acc * 10 + DigitOf(Head(ds)))

parse_unsigned(part, max) ==
    LET ds == IF part # <<>> /\ Head(part) = "+" THEN Tail(part) ELSE part
    IN IF ds # <<>> /\ Len(ds) <= 9 /\ (\A i \in 1 .. Len(ds) : IsDigit(ds[i]))
          /\ DigitsValue(ds, 0) <= max
       THEN DigitsValue(ds, 0)
       ELSE Nil

fen_half_move_clock(b, part) ==
    LET x == parse_unsigned(part, 255)
    IN IF Len(part) \in 1 .. 3 /\ x # Nil /\ x <= HALF_MOVE_MAX
       THEN [status |-> "Ok", board |-> [b EXCEPT !.game_state.half_move_clock = x]]
       ELSE [status |-> "HalfMovePartError", board |-> b]

fen_full_move_number(b, part) ==
    LET x == parse_unsigned(part, 65535)
    IN IF part # <<>> /\ Len(part) <= 4 /\ x # Nil /\ x <= MAX_GAME_MOVES
       THEN [status |-> "Ok", board |-> [b EXCEPT !.game_state.full_move_number = x]]
       ELSE [status |-> "FullMovePartError", board |-> b]

\* FenParser::parse: the six part parsers in order, stopping at the first error
fen_parse(b, fen_string, overflow_checks) ==
    LET sp == split_fen_string(fen_string)
        r1 == fen_pieces(b, sp.parts[1], overflow_checks)
        r2 == fen_color(r1.board, sp.parts[2])
        r3 == fen_castling(r2.board, sp.parts[3])
        r4 == fen_en_passant(r3.board, sp.parts[4])
        r5 == fen_half_move_clock(r4.board, sp.parts[5])
        r6 == fen_full_move_number(r5.board, sp.parts[6])
    IN IF sp.status # "Ok" THEN [status |-> sp.status, board |-> b]
       ELSE IF r1.status # "Ok" THEN r1
       ELSE IF r2.status # "Ok" THEN r2
       ELSE IF r3.status # "Ok" THEN r3
       ELSE IF r4.status # "Ok" THEN r4
       ELSE IF r5.status # "Ok" THEN r5
       ELSE r6

\* ------------------------------------------------------------------------
\* engine/board/board.rs: init and from_fen
\* ------------------------------------------------------------------------
init_pieces_per_side_bitboards(b) ==
    << UNION { b.pieces[White][p] : p \in PieceTypes },
       UNION { b.pieces[Black][p] : p \in PieceTypes } >>

\* the piece types are visited in ascending order, so the last one written to
\* a square is the largest type that has the square in either colour
init_piece_list(b) ==
    [b EXCEPT !.piece_list = [sq \in Squares |->
        LET types == { p \in PieceTypes : sq \in b.pieces[White][p] \cup b.pieces[Black][p] }
        IN IF types = {} THEN NoPiece
           ELSE CHOOSE p \in types : \A q \in types : q <= p]]

\* key ^= piece(side, piece_type, square) for every square of the bitboards of
\* piece types piece_type .. 5, white before black
RECURSIVE hash_pieces(_, _, _)
hash_pieces(b, key, piece_type) ==
    IF piece_type >= PIECE_TYPES THEN key
    ELSE LET white == { zobrist_piece(White, piece_type, sq) :
                            sq \in b.pieces[White][piece_type] }
             black == { zobrist_piece(Black, piece_type, sq) :
                            sq \in b.pieces[Black][piece_type] }
         IN hash_pieces(b, Xor(Xor(key, white), black), piece_type + 1)

init_zobrist_key(b) ==
    [b EXCEPT !.game_state.zobrist_key =
        Xor(Xor(Xor(hash_pieces(b, {}, 0),
                    {zobrist_castling(b.game_state.castling)}),
                {zobrist_side(b.game_state.active_side)}),
            {zobrist_en_passant(b.game_state.en_passant)})]

init(b) ==
    LET occ == init_pieces_per_side_bitboards(b)
        b1 == [b EXCEPT !.sides = [s \in Sides |-> occ[s + 1]]]
    IN init_zobrist_key(init_piece_list(b1))

\* returns [status, board]: on a parse error the board stays as the parser
\* left it and init is not run
from_fen(b, fen_string, overflow_checks) ==
    Let(fen_parse(reset(b), fen_string, overflow_checks), LAMBDA r :
        IF r.status = "Ok" THEN [status |-> "Ok", board |-> init(r.board)]
        ELSE IF r.status = "Panic" THEN [status |-> "Panic", board |-> Panic(r.board)]
        ELSE r)

\* ------------------------------------------------------------------------
\* engine/board/board.rs: the draw predicates
\* ------------------------------------------------------------------------
\* a fifty-move rule that needs one more half-move
draw_by_fifty_move_rule_above_max(b) ==
    b.game_state.half_move_clock > HALF_MOVE_MAX

draw_by_fifty_move_rule(b) == b.game_state.half_move_clock >= HALF_MOVE_MAX

\* a scan that ends before it has looked at the entry it ends with
RECURSIVE threefold_count_stops_first(_, _)
threefold_count_stops_first(b, i) ==
    IF i < 1 THEN 0
    ELSE LET previous_state == b.game_history[i].prev_state
             hit == IF previous_state.zobrist_key = b.game_state.zobrist_key
                    THEN 1 ELSE 0
         IN IF previous_state.half_move_clock = 0 THEN 0
            ELSE hit + threefold_count_stops_first(b, i - 1)

\* the scan of the history from the newest entry down to entry i
RECURSIVE threefold_count(_, _)
threefold_count(b, i) ==
    IF i < 1 THEN 0
    ELSE LET previous_state == b.game_history[i].prev_state
             hit == IF previous_state.zobrist_key = b.game_state.zobrist_key
                    THEN 1 ELSE 0
         IN IF previous_state.half_move_clock = 0 THEN hit
            ELSE hit + threefold_count(b, i - 1)

draw_by_threefold_repetition(b) == threefold_count(b, Len(b.game_history)) >= 3

\* insufficient material without the look at the colours of the bishops
draw_by_insufficient_material_any_bishops(b) ==
    LET minors(side) == Cardinality(b.pieces[side][Bishop])
                        + Cardinality(b.pieces[side][Knight])
    IN /\ \A s \in Sides : \A p \in {Queen, Rook, Pawn} : b.pieces[s][p] = {}
       /\ \/ minors(White) + minors(Black) <= 1
          \/ \A s \in Sides : /\ Cardinality(b.pieces[s][Bishop]) = 1
                               /\ b.pieces[s][Knight] = {}

draw_by_insufficient_material(b) ==
    LET white == b.pieces[White]
        black == b.pieces[Black]
        has_mating_material ==
            \E s \in Sides : \E p \in {Queen, Rook, Pawn} : b.pieces[s][p] # {}
        count(bb) == Cardinality(bb)
        kk == /\ white[Bishop] = {} /\ white[Knight] = {}
              /\ black[Bishop] = {} /\ black[Knight] = {}
        kbk == /\ count(white[Bishop]) = 1 /\ white[Knight] = {}
               /\ black[Bishop] = {} /\ black[Knight] = {}
        knk == /\ white[Bishop] = {} /\ count(white[Knight]) = 1
               /\ black[Bishop] = {} /\ black[Knight] = {}
        kkb == /\ white[Bishop] = {} /\ white[Knight] = {}
               /\ count(black[Bishop]) = 1 /\ black[Knight] = {}
        kkn == /\ white[Bishop] = {} /\ white[Knight] = {}
               /\ black[Bishop] = {} /\ count(black[Knight]) = 1
        kbkb == /\ count(white[Bishop]) = 1 /\ white[Knight] = {}
                /\ count(black[Bishop]) = 1 /\ black[Knight] = {}
        square_color(sq) == ((sq \div 8) + (sq % 8)) % 2
        same_color_sq ==
            kbkb /\ square_color(trailing_zeros(white[Bishop]))
                        = square_color(trailing_zeros(black[Bishop]))
    IN ~has_mating_material
       /\ (kk \/ kbk \/ knk \/ kkb \/ kkn \/ (kbkb /\ same_color_sq))

\* ------------------------------------------------------------------------
\* engine/searcher/transposition_table.rs
\* ------------------------------------------------------------------------
NoEntry == [some |-> FALSE]
SomeEntry(entry) == [some |-> TRUE, entry |-> entry]

TranspositionTableEntry(zobrist, depth, score, flag, best_move) ==
    [zobrist |-> zobrist, depth |-> depth, score |-> score, flag |-> flag,
     best_move |-> best_move]

TranspositionTableNew(size_bits) ==
    [entries |-> [i \in 0 .. (2 ^ size_bits - 1) |-> NoEntry],
     mask |-> 2 ^ size_bits - 1]

\* one bit of a key: the XOR of that bit of the random draws in the key; the
\* value of draw number d is taken to have the low bits of d
KeyBit(zobrist, bit) == Cardinality({ d \in zobrist : HasBit(d, bit) }) % 2

\* zobrist & mask, from the bit of value `bit` upwards
RECURSIVE MaskedKey(_, _, _)
MaskedKey(zobrist, bit, mask) ==
    IF bit > mask THEN 0
    ELSE bit * KeyBit(zobrist, bit) + MaskedKey(zobrist, 2 * bit, mask)

index(table, zobrist) == MaskedKey(zobrist, 1, table.mask)

\* variants of store and retrieve that the properties must tell apart
retrieve_any_key(table, zobrist) == table.entries[index(table, zobrist)]

store_only_deeper(table, zobrist, entry) ==
    LET idx == index(table, zobrist)
        existing == table.entries[idx]
    IN IF ~existing.some \/ entry.depth > existing.entry.depth
       THEN [table EXCEPT !.entries[idx] = SomeEntry(entry)]
       ELSE table

\* faulty variant of store: the entry is replaced whatever its depth
store_whatever_the_depth(table, zobrist, entry) ==
    [table EXCEPT !.entries[index(table, zobrist)] = SomeEntry(entry)]

store(table, zobrist, entry) ==
    LET idx == index(table, zobrist)
        existing == table.entries[idx]
        replace == IF ~existing.some THEN TRUE
                   ELSE entry.depth >= existing.entry.depth
    IN IF replace THEN [table EXCEPT !.entries[idx] = SomeEntry(entry)]
       ELSE table

retrieve(table, zobrist) ==
    LET e == table.entries[index(table, zobrist)]
    IN IF e.some /\ e.entry.zobrist = zobrist THEN e ELSE NoEntry

\* ------------------------------------------------------------------------
\* engine/evaluator/evaluator.rs.  The Evaluator is a trait; the evaluators
\* of the model are total, finite, well inside the score range and score
\* from the side to move's point of view: material, plus (evaluator 1) the
\* number of pieces on the four central files.
\* ------------------------------------------------------------------------
Evaluators == {0, 1}

material(b, side) ==
    100 * Cardinality(b.pieces[side][Pawn])
    + 300 * Cardinality(b.pieces[side][Knight])
    + 325 * Cardinality(b.pieces[side][Bishop])
    + 500 * Cardinality(b.pieces[side][Rook])
    + 900 * Cardinality(b.pieces[side][Queen])

central(b, side) == Cardinality({ sq \in b.sides[side] : FileOf(sq) \in 2 .. 5 })

evaluate_board(evaluator, b) ==
    LET side == get_active_side(b)
    IN material(b, side) - material(b, 1 - side)
       + evaluator * 10 * (central(b, side) - central(b, 1 - side))

\* ------------------------------------------------------------------------
\* engine/searcher/searcher.rs.  search_move works on the caller's board and
\* on the searcher's table, so both are returned with the SearchResult.
\* Four more fields observe the call: path is the way in which this call
\* returned, paths the set of the ways in which this call and the calls
\* below it returned, restored tells that each of these calls returned the
\* board as it had received it, and balanced that each had then made as
\* many undo_move as make_move calls.
\* ------------------------------------------------------------------------
NoMove == [some |-> FALSE]
SomeMove(mv) == [some |-> TRUE, mv |-> mv]

SearchResult(best_move, score) == [best_move |-> best_move, score |-> score]

NoneObserved == [path |-> "", paths |-> {}, restored |-> TRUE, balanced |-> TRUE]

Observed(seen, path, entry_board, board) ==
    [path |-> path,
     paths |-> seen.paths \cup {path},
     restored |-> seen.restored /\ Position(board) = Position(entry_board),
     balanced |-> seen.balanced
                  /\ board.calls.make_move - entry_board.calls.make_move
                       = board.calls.undo_move - entry_board.calls.undo_move]

Returned(result, board, table, seen) ==
    [best_move |-> result.best_move, score |-> result.score, board |-> board,
     table |-> table, path |-> seen.path, paths |-> seen.paths,
     restored |-> seen.restored, balanced |-> seen.balanced]

RECURSIVE search_move(_, _, _, _, _, _)
RECURSIVE search_loop(_, _, _, _, _, _, _)

\* faulty variant of tt_cutoff: the depth of the entry is not looked at
tt_cutoff_at_any_depth(found, depth, alpha, beta) ==
    /\ found.some
    /\ \/ found.entry.flag = "Exact"
       \/ found.entry.flag = "LowerBound" /\ found.entry.score >= beta
       \/ found.entry.flag = "UpperBound" /\ found.entry.score <= alpha

\* whether what the table returned for the position ends search_move at
\* once: `if let Some(entry) = retrieve(zobrist)`, `entry.depth >= depth`
\* and the match on entry.flag
tt_cutoff(found, depth, alpha, beta) ==
    /\ found.some
    /\ found.entry.depth >= depth
    /\ \/ found.entry.flag = "Exact"
       \/ found.entry.flag = "LowerBound" /\ found.entry.score >= beta
       \/ found.entry.flag = "UpperBound" /\ found.entry.score <= alpha

\* the locals of search_move when the `for mv in moves` loop begins; left
\* tells that the loop has been left, by the return of a checkmating move
\* (returned) or by the break
LoopBegins(board, table, alpha) ==
    [left |-> FALSE, returned |-> FALSE,
     best_result |-> SearchResult(NoMove, MIN_POSITION_SCORE), alpha |-> alpha,
     board |-> board, table |-> table, seen |-> NoneObserved]

\* faulty variant of search_loop_body: a second undo_move before the break
search_loop_body_undoes_twice(evaluator, depth, beta, mv, loop) ==
    IF mv.is_checkmate
    THEN [loop EXCEPT !.left = TRUE, !.returned = TRUE,
                      !.best_result =
                          IF get_active_side(loop.board) = White
                          THEN SearchResult(SomeMove(mv), MAX_POSITION_SCORE)
                          ELSE SearchResult(SomeMove(mv), MIN_POSITION_SCORE)]
    ELSE
    Let(search_move(evaluator, make_move(loop.board, mv), loop.table, depth - 1,
                    -beta, -loop.alpha), LAMBDA result :
    Let(undo_move(result.board), LAMBDA undone :
        LET score == -result.score
            alpha1 == IF score > loop.alpha THEN score ELSE loop.alpha
        IN [left |-> alpha1 >= beta, returned |-> FALSE,
            best_result |-> IF score > loop.best_result.score
                            THEN SearchResult(SomeMove(mv), score)
                            ELSE loop.best_result,
            alpha |-> alpha1,
            board |-> IF alpha1 >= beta THEN undo_move(undone) ELSE undone,
            table |-> result.table,
            seen |-> [loop.seen EXCEPT
                         !.paths = @ \cup result.paths
                                     \cup (IF alpha1 >= beta THEN {"beta cutoff"}
                                           ELSE {}),
                         !.restored = @ /\ result.restored,
                         !.balanced = @ /\ result.balanced]]))

\* faulty variant of search_loop_body: no break when alpha >= beta
search_loop_body_never_breaks(evaluator, depth, beta, mv, loop) ==
    IF mv.is_checkmate
    THEN [loop EXCEPT !.left = TRUE, !.returned = TRUE,
                      !.best_result =
                          IF get_active_side(loop.board) = White
                          THEN SearchResult(SomeMove(mv), MAX_POSITION_SCORE)
                          ELSE SearchResult(SomeMove(mv), MIN_POSITION_SCORE)]
    ELSE
    Let(search_move(evaluator, make_move(loop.board, mv), loop.table, depth - 1,
                    -beta, -loop.alpha), LAMBDA result :
    Let(undo_move(result.board), LAMBDA undone :
        LET score == -result.score
            alpha1 == IF score > loop.alpha THEN score ELSE loop.alpha
        IN [left |-> FALSE, returned |-> FALSE,
            best_result |-> IF score > loop.best_result.score
                            THEN SearchResult(SomeMove(mv), score)
                            ELSE loop.best_result,
            alpha |-> alpha1,
            board |-> undone,
            table |-> result.table,
            seen |-> [loop.seen EXCEPT
                         !.paths = @ \cup result.paths
                                     \cup (IF alpha1 >= beta THEN {"beta cutoff"}
                                           ELSE {}),
                         !.restored = @ /\ result.restored,
                         !.balanced = @ /\ result.balanced]]))

\* the body of the `for mv in moves` loop
search_loop_body(evaluator, depth, beta, mv, loop) ==
    IF mv.is_checkmate
    THEN [loop EXCEPT !.left = TRUE, !.returned = TRUE,
                      !.best_result =
                          IF get_active_side(loop.board) = White
                          THEN SearchResult(SomeMove(mv), MAX_POSITION_SCORE)
                          ELSE SearchResult(SomeMove(mv), MIN_POSITION_SCORE)]
    ELSE
    Let(search_move(evaluator, make_move(loop.board, mv), loop.table, depth - 1,
                    -beta, -loop.alpha), LAMBDA result :
    Let(undo_move(result.board), LAMBDA undone :
        LET score == -result.score
            alpha1 == IF score > loop.alpha THEN score ELSE loop.alpha
        IN [left |-> alpha1 >= beta, returned |-> FALSE,
            best_result |-> IF score > loop.best_result.score
                            THEN SearchResult(SomeMove(mv), score)
                            ELSE loop.best_result,
            alpha |-> alpha1,
            board |-> undone,
            table |-> result.table,
            seen |-> [loop.seen EXCEPT
                         !.paths = @ \cup result.paths
                                     \cup (IF alpha1 >= beta THEN {"beta cutoff"}
                                           ELSE {}),
                         !.restored = @ /\ result.restored,
                         !.balanced = @ /\ result.balanced]]))

\* the `for mv in moves` loop over the moves lo .. hi in their order: the
\* first half of them, then, unless the loop has been left, the second half
search_loop(evaluator, depth, beta, moves, lo, hi, loop) ==
    IF lo > hi \/ loop.left \/ loop.board.panicked THEN loop
    ELSE IF lo = hi THEN search_loop_body(evaluator, depth, beta, moves[lo], loop)
    ELSE Let(search_loop(evaluator, depth, beta, moves, lo, (lo + hi) \div 2, loop),
             LAMBDA first :
             search_loop(evaluator, depth, beta, moves, (lo + hi) \div 2 + 1, hi,
                         first))

search_move(evaluator, board, table, depth, alpha, beta) ==
    Let(retrieve(table, board.game_state.zobrist_key), LAMBDA found :
    LET alpha_og == alpha
        zobrist == board.game_state.zobrist_key
        entry == found.entry
        last_move == board.game_history[Len(board.game_history)]
    IN IF tt_cutoff(found, depth, alpha, beta)
       THEN Returned(SearchResult(entry.best_move, entry.score), board, table,
                     Observed(NoneObserved, "tt cutoff", board, board))
       ELSE IF \/ draw_by_fifty_move_rule(board)
               \/ draw_by_threefold_repetition(board)
               \/ draw_by_insufficient_material(board)
       THEN Returned(SearchResult(NoMove, 0), board, table,
                     Observed(NoneObserved, "draw", board, board))
       ELSE IF Len(board.game_history) > 0 /\ last_move.mv.is_checkmate
       THEN Returned(SearchResult(NoMove,
                                  IF get_active_side(board) = White
                                  THEN MIN_POSITION_SCORE
                                  ELSE MAX_POSITION_SCORE),
                     board, table,
                     Observed(NoneObserved, "last move checkmate", board, board))
       ELSE IF depth = 0
       THEN Returned(SearchResult(NoMove, evaluate_board(evaluator, board)),
                     board, table,
                     Observed(NoneObserved, "depth 0", board, board))
       ELSE
       Let(generate_moves(board), LAMBDA generated :
       Let(search_loop(evaluator, depth, beta, generated.moves, 1,
                       Len(generated.moves),
                       LoopBegins(generated.board, table, alpha)),
           LAMBDA loop :
           LET best_result == loop.best_result
               flag == IF best_result.score <= alpha_og THEN "UpperBound"
                       ELSE IF best_result.score >= beta THEN "LowerBound"
                       ELSE "Exact"
           IN IF loop.returned
              THEN Returned(best_result, loop.board, loop.table,
                            Observed(loop.seen, "checkmate move", board,
                                     loop.board))
              ELSE Returned(best_result, loop.board,
                            store(loop.table, zobrist,
                                  TranspositionTableEntry(zobrist, depth,
                                                          best_result.score, flag,
                                                          best_result.best_move)),
                            Observed(loop.seen, "searched", board, loop.board)))))

\* ------------------------------------------------------------------------
\* FEN inputs: legal chess positions, one per rule the moves exercise
\* ------------------------------------------------------------------------
\* 4k3/8/8/8/8/8/P6p/R3K2R w KQ - 3 10
FEN_CASTLING_WHITE ==
    << "4", "k", "3", "/", "8", "/", "8", "/", "8", "/", "8", "/", "8", "/",
       "P", "6", "p", "/", "R", "3", "K", "2", "R", " ", "w", " ", "K", "Q",
       " ", "-", " ", "3", " ", "1", "0" >>

\* r3k2r/P6p/7P/8/8/8/8/4K3 b kq - 0 1
FEN_CASTLING_BLACK ==
    << "r", "3", "k", "2", "r", "/", "P", "6", "p", "/", "7", "P", "/", "8",
       "/", "8", "/", "8", "/", "8", "/", "4", "K", "3", " ", "b", " ", "k",
       "q", " ", "-", " ", "0", " ", "1" >>

\* 4k3/8/8/8/1p6/8/P7/4K3 w - - 0 1
FEN_EP_WHITE_PUSH ==
    << "4", "k", "3", "/", "8", "/", "8", "/", "8", "/", "1", "p", "6", "/",
       "8", "/", "P", "7", "/", "4", "K", "3", " ", "w", " ", "-", " ", "-",
       " ", "0", " ", "1" >>

\* 4k3/p7/8/1P6/8/8/8/4K3 b - - 0 1
FEN_EP_BLACK_PUSH ==
    << "4", "k", "3", "/", "p", "7", "/", "8", "/", "1", "P", "6", "/", "8",
       "/", "8", "/", "8", "/", "4", "K", "3", " ", "b", " ", "-", " ", "-",
       " ", "0", " ", "1" >>

\* 1n5k/P7/8/8/8/8/8/7K w - - 0 1
FEN_PROMOTION ==
    << "1", "n", "5", "k", "/", "P", "7", "/", "8", "/", "8", "/", "8", "/",
       "8", "/", "8", "/", "7", "K", " ", "w", " ", "-", " ", "-", " ", "0",
       " ", "1" >>

\* 4k3/8/8/8/8/2b5/3N4/4K3 w - - 5 20
FEN_PIN ==
    << "4", "k", "3", "/", "8", "/", "8", "/", "8", "/", "8", "/", "2", "b",
       "5", "/", "3", "N", "4", "/", "4", "K", "3", " ", "w", " ", "-", " ",
       "-", " ", "5", " ", "2", "0" >>

\* 7k/8/6K1/8/8/8/8/R7 w - - 0 1
FEN_MATE_IN_ONE ==
    << "7", "k", "/", "8", "/", "6", "K", "1", "/", "8", "/", "8", "/", "8",
       "/", "8", "/", "R", "7", " ", "w", " ", "-", " ", "-", " ", "0", " ",
       "1" >>

\* 4k3/8/8/8/Pp6/8/8/4K3 b - a3 0 1
FEN_EP_TARGET ==
    << "4", "k", "3", "/", "8", "/", "8", "/", "8", "/", "P", "p", "6", "/",
       "8", "/", "8", "/", "4", "K", "3", " ", "b", " ", "-", " ", "a", "3",
       " ", "0", " ", "1" >>

\* 4k3/8/8/8/8/8/4P3/4K3 w - - 100 80
FEN_HUNDRED ==
    << "4", "k", "3", "/", "8", "/", "8", "/", "8", "/", "8", "/", "8", "/",
       "4", "P", "3", "/", "4", "K", "3", " ", "w", " ", "-", " ", "-", " ",
       "1", "0", "0", " ", "8", "0" >>

FenInputs == { FEN_CASTLING_WHITE, FEN_CASTLING_BLACK, FEN_EP_WHITE_PUSH,
               FEN_EP_BLACK_PUSH, FEN_PROMOTION, FEN_PIN, FEN_MATE_IN_ONE,
               FEN_EP_TARGET, FEN_HUNDRED }

\* ------------------------------------------------------------------------
\* FEN inputs of the searches
\* ------------------------------------------------------------------------
\* 6k1/5ppp/8/8/8/8/5PPP/R5K1 w - - 0 1
FEN_WHITE_MATES ==
    << "6", "k", "1", "/", "5", "p", "p", "p", "/", "8", "/", "8", "/", "8",
       "/", "8", "/", "5", "P", "P", "P", "/", "R", "5", "K", "1", " ", "w",
       " ", "-", " ", "-", " ", "0", " ", "1" >>

\* r5k1/5ppp/8/8/8/8/5PPP/6K1 b - - 0 1
FEN_BLACK_MATES ==
    << "r", "5", "k", "1", "/", "5", "p", "p", "p", "/", "8", "/", "8", "/",
       "8", "/", "8", "/", "5", "P", "P", "P", "/", "6", "K", "1", " ", "b",
       " ", "-", " ", "-", " ", "0", " ", "1" >>

\* 6k1/5ppp/8/8/8/8/5PPP/R5K1 b - - 97 60
FEN_MATE_THREAT ==
    << "6", "k", "1", "/", "5", "p", "p", "p", "/", "8", "/", "8", "/", "8",
       "/", "8", "/", "5", "P", "P", "P", "/", "R", "5", "K", "1", " ", "b",
       " ", "-", " ", "-", " ", "9", "7", " ", "6", "0" >>

\* 7k/8/8/8/8/8/8/KR6 w - - 99 60
FEN_FIFTY ==
    << "7", "k", "/", "8", "/", "8", "/", "8", "/", "8", "/", "8", "/", "8",
       "/", "K", "R", "6", " ", "w", " ", "-", " ", "-", " ", "9", "9", " ",
       "6", "0" >>

\* 7k/8/8/8/8/8/8/Kr6 w - - 0 1
FEN_LONE_ROOK ==
    << "7", "k", "/", "8", "/", "8", "/", "8", "/", "8", "/", "8", "/", "8",
       "/", "K", "r", "6", " ", "w", " ", "-", " ", "-", " ", "0", " ", "1" >>

\* 7k/5Q2/6K1/8/8/8/8/8 b - - 0 1
FEN_STALEMATE ==
    << "7", "k", "/", "5", "Q", "2", "/", "6", "K", "1", "/", "8", "/", "8",
       "/", "8", "/", "8", "/", "8", " ", "b", " ", "-", " ", "-", " ", "0",
       " ", "1" >>

\* 4k3/8/8/8/8/8/4P3/4K3 w - - 0 1
FEN_PAWN_ENDING ==
    << "4", "k", "3", "/", "8", "/", "8", "/", "8", "/", "8", "/", "8", "/",
       "4", "P", "3", "/", "4", "K", "3", " ", "w", " ", "-", " ", "-", " ",
       "0", " ", "1" >>

\* k7/2K5/8/8/8/8/8/1R6 b - - 0 1
FEN_LOST ==
    << "k", "7", "/", "2", "K", "5", "/", "8", "/", "8", "/", "8", "/", "8",
       "/", "8", "/", "1", "R", "6", " ", "b", " ", "-", " ", "-", " ", "0",
       " ", "1" >>

SearchFenInputs == { FEN_WHITE_MATES, FEN_BLACK_MATES, FEN_MATE_THREAT, FEN_FIFTY,
                     FEN_LONE_ROOK, FEN_STALEMATE, FEN_PAWN_ENDING, FEN_LOST }

\* ------------------------------------------------------------------------
\* State: the fields of one Board, the status of the last from_fen call on
\* it, and the list the last generate_moves call returned (moves_fresh: no
\* board operation has run since); the Searcher's evaluator and
\* transposition table, and what the last search_move call on the board
\* returned (valid: no move has been played since); the last call made on
\* the transposition table from outside a search.
\* ------------------------------------------------------------------------
VARIABLES sides, pieces, piece_list, game_state, game_history, panicked,
          fen_status, moves, moves_fresh,
          evaluator, transposition_table, search_result, table_call

vars == << sides, pieces, piece_list, game_state, game_history, panicked,
           fen_status, moves, moves_fresh,
           evaluator, transposition_table, search_result, table_call >>

searcher == << evaluator, transposition_table, search_result, table_call >>

NoSearchResult == [valid |-> FALSE]

NoTableCall == [op |-> "none"]

Board ==
    [sides |-> sides, pieces |-> pieces, piece_list |-> piece_list,
     game_state |-> game_state, game_history |-> game_history,
     panicked |-> panicked, calls |-> NoCalls]

BoardNext ==
    [sides |-> sides', pieces |-> pieces', piece_list |-> piece_list',
     game_state |-> game_state', game_history |-> game_history',
     panicked |-> panicked', calls |-> NoCalls]

BoardBecomes(b) ==
    /\ sides' = b.sides
    /\ pieces' = b.pieces
    /\ piece_list' = b.piece_list
    /\ game_state' = b.game_state
    /\ game_history' = b.game_history
    /\ panicked' = b.panicked

\* Board::new()
Init ==
    /\ sides = BoardNew.sides
    /\ pieces = BoardNew.pieces
    /\ piece_list = BoardNew.piece_list
    /\ game_state = BoardNew.game_state
    /\ game_history = BoardNew.game_history
    /\ panicked = FALSE
    /\ fen_status = "None"
    /\ moves = <<>>
    /\ moves_fresh = FALSE
    /\ evaluator = 0
    /\ transposition_table = TranspositionTableNew(SizeBits)
    /\ search_result = NoSearchResult
    /\ table_call = NoTableCall

\* board.from_fen(Some(fen)) on the new board
FromFen ==
    /\ ~panicked
    /\ fen_status = "None"
    /\ \E fen \in FenInputs, overflow_checks \in BOOLEAN :
          \E r \in {from_fen(Board, fen, overflow_checks)} :
             /\ BoardBecomes(r.board)
             /\ fen_status' = r.status
    /\ moves' = <<>>
    /\ moves_fresh' = FALSE
    /\ UNCHANGED searcher

\* moves = movegen.generate_moves(&mut board)
GenerateMoves ==
    /\ ~panicked
    /\ fen_status = "Ok"
    /\ ~moves_fresh
    /\ \E g \in {generate_moves(Board)} :
          /\ BoardBecomes(g.board)
          /\ moves' = g.moves
          /\ moves_fresh' = ~g.board.panicked
    /\ UNCHANGED << fen_status, searcher >>

\* board.make_move(mv) for a move mv of the generated list
MakeMove ==
    /\ ~panicked
    /\ moves_fresh
    /\ Len(game_history) < MaxPly
    /\ \E i \in 1 .. Len(moves) : BoardBecomes(make_move(Board, moves[i]))
    /\ moves' = <<>>
    /\ moves_fresh' = FALSE
    /\ UNCHANGED << fen_status, searcher >>

\* board.undo_move()
UndoMove ==
    /\ ~panicked
    /\ fen_status = "Ok"
    /\ BoardBecomes(undo_move(Board))
    /\ moves' = <<>>
    /\ moves_fresh' = FALSE
    /\ UNCHANGED << fen_status, searcher >>

Next == FromFen \/ GenerateMoves \/ MakeMove \/ UndoMove

Spec == Init /\ [][Next]_vars

\* ------------------------------------------------------------------------
\* The searcher and its driver: a position is loaded, searched, and the move
\* the search returned is played.
\* ------------------------------------------------------------------------
\* board.from_fen(Some(fen)); Searcher::new(evaluator, movegen, table)
SearchFromFen ==
    /\ ~panicked
    /\ fen_status = "None"
    /\ \E fen \in SearchFenInputs, overflow_checks \in BOOLEAN :
          \E r \in {from_fen(Board, fen, overflow_checks)} :
             /\ BoardBecomes(r.board)
             /\ fen_status' = r.status
    /\ evaluator' \in Evaluators
    /\ UNCHANGED << moves, moves_fresh, transposition_table, search_result,
                    table_call >>

\* searcher.search_move(&mut board, depth, MIN_POSITION_SCORE, MAX_POSITION_SCORE)
SearchMove ==
    /\ ~panicked
    /\ fen_status = "Ok"
    /\ ~search_result.valid
    /\ \E depth \in 0 .. MaxDepth :
          \E r \in {search_move(evaluator, Board, transposition_table, depth,
                               MIN_POSITION_SCORE, MAX_POSITION_SCORE)} :
             /\ BoardBecomes(r.board)
             /\ transposition_table' = r.table
             /\ search_result' =
                    [valid |-> TRUE, depth |-> depth,
                     side |-> game_state.active_side,
                     best_move |-> r.best_move, score |-> r.score,
                     path |-> r.path, paths |-> r.paths,
                     restored |-> r.restored, balanced |-> r.balanced,
                     calls |-> r.board.calls]
    /\ UNCHANGED << fen_status, moves, moves_fresh, evaluator, table_call >>

\* board.make_move(mv) for the best_move the search returned
PlayBestMove ==
    /\ ~panicked
    /\ search_result.valid
    /\ search_result.best_move.some
    /\ Len(game_history) < MaxSearchPly
    /\ BoardBecomes(make_move(Board, search_result.best_move.mv))
    /\ search_result' = NoSearchResult
    /\ UNCHANGED << fen_status, moves, moves_fresh, evaluator,
                    transposition_table, table_call >>

SearchNext == SearchFromFen \/ SearchMove \/ PlayBestMove

SearchSpec == Init /\ [][SearchNext]_vars

\* ------------------------------------------------------------------------
\* The transposition table on its own: any sequence of store and retrieve
\* calls.  The keys are few and collide: the draws 64 and 128 have none of
\* the bits the mask keeps, so {1} and {1, 64} share a slot
\* and {2} has another.  store takes the key and the entry separately, and nothing
\* makes the key inside the entry the key of the call.
\* ------------------------------------------------------------------------
TableKeys == { {1}, {1, 64}, {2} }

TableScores == {0, 1}

\* the deepest entry stored by a direct call
MaxTableDepth == 2

TableEntries ==
    { TranspositionTableEntry(zobrist, depth, score, "Exact", NoMove) :
        zobrist \in TableKeys, depth \in 0 .. MaxTableDepth,
        score \in TableScores }

board_fields == << sides, pieces, piece_list, game_state, game_history,
                   panicked, fen_status, moves, moves_fresh >>

\* table.store(zobrist, entry)
TableStore ==
    /\ \E zobrist \in TableKeys, entry \in TableEntries :
          /\ transposition_table' = store(transposition_table, zobrist, entry)
          /\ table_call' = [op |-> "store", zobrist |-> zobrist,
                            entry |-> entry, before |-> transposition_table]
    /\ UNCHANGED << board_fields, evaluator, search_result >>

\* table.retrieve(zobrist)
TableRetrieve ==
    /\ \E zobrist \in TableKeys :
          table_call' = [op |-> "retrieve", zobrist |-> zobrist,
                         returned |-> retrieve(transposition_table, zobrist)]
    /\ UNCHANGED << board_fields, evaluator, transposition_table, search_result >>

TableNext == TableStore \/ TableRetrieve

TableSpec == Init /\ [][TableNext]_vars

\* ------------------------------------------------------------------------
\* Notions the properties are stated with, given independently of the code
\* that maintains them.
\* ------------------------------------------------------------------------
Loaded == fen_status = "Ok"

LastMove == game_history[Len(game_history)].mv

\* the squares a piece of side `side` standing on `from` attacks
AttackedFrom(b, side, from) ==
    LET occupancy == b.sides[White] \cup b.sides[Black]
        piece == b.piece_list[from]
    IN CASE piece = Pawn -> IF side = White THEN PAWN_WHITE_ATTACKS[from]
                            ELSE PAWN_BLACK_ATTACKS[from]
         [] piece = Knight -> KNIGHT_BASE_ATTACKS[from]
         [] piece = King -> KING_BASE_ATTACKS[from]
         [] piece = Rook -> rook_attacks(from, occupancy)
         [] piece = Bishop -> bishop_attacks(from, occupancy)
         [] piece = Queen -> rook_attacks(from, occupancy)
                             \cup bishop_attacks(from, occupancy)
         [] OTHER -> {}

\* some piece of by_side attacks the square
Attacks(b, by_side, square) ==
    \E from \in b.sides[by_side] : square \in AttackedFrom(b, by_side, from)

\* the key of the position computed from scratch
RecomputedKey ==
    { zobrist_piece(s, p, sq) : <<s, p, sq>> \in
        { t \in Sides \X PieceTypes \X Squares : t[3] \in pieces[t[1]][t[2]] } }
    \cup { zobrist_castling(game_state.castling),
           zobrist_side(game_state.active_side),
           zobrist_en_passant(game_state.en_passant) }

\* a generated move without the annotations generate_moves adds to it
Plain(mv) == [mv EXCEPT !.is_check = FALSE, !.is_checkmate = FALSE]

GeneratedMoves == { Plain(moves[i]) : i \in 1 .. Len(moves) }

PseudoLegalMoves ==
    LET ps == generate_pseudo_legal_moves(Board)
    IN { ps[i] : i \in 1 .. Len(ps) }

\* the mover's king is not attacked once mv has been made
KingSafeAfter(mv) ==
    LET after == make_move(Board, mv)
        mover == game_state.active_side
    IN \A k \in after.pieces[mover][King] : ~Attacks(after, 1 - mover, k)

\* ------------------------------------------------------------------------
\* Properties
\* ------------------------------------------------------------------------
\* C1: for every reachable position P and every move m that generate_moves(P)
\* returned, make_move(m) followed by undo_move gives back exactly P: sides,
\* pieces, piece_list, every game_state field (zobrist_key included) and the
\* history.
C1_MakeUndoRoundTrip ==
    moves_fresh =>
        \A i \in 1 .. Len(moves) :
            Position(undo_move(make_move(Board, moves[i]))) = Position(Board)

\* the list offers an en-passant capture, a capture and a quiet move
C1_Witness ==
    /\ moves_fresh
    /\ \E i \in 1 .. Len(moves) : is_en_passant(moves[i])
    /\ \E i \in 1 .. Len(moves) : is_quiet(moves[i])

\* C2: after from_fen and after every make_move or undo_move of generated
\* moves, game_state.zobrist_key equals the key recomputed from scratch: the
\* piece keys of every occupied (side, piece, square), the castling key, the
\* side key and the en-passant key (the no-en-passant slot when unset).
C2_ZobristConsistent ==
    Loaded => game_state.zobrist_key = RecomputedKey

\* a pawn has just promoted with a capture
C2_Witness ==
    /\ Loaded
    /\ Len(game_history) > 0
    /\ is_promotion(LastMove)
    /\ is_capture(LastMove)

\* C3: after the FEN load and after every make_move or undo_move of generated
\* moves, the two side occupancies are disjoint.
C3_SidesDisjoint ==
    sides[White] \cap sides[Black] = {}

\* an en-passant capture has just been made
C3_Witness ==
    /\ Loaded
    /\ Len(game_history) > 0
    /\ is_en_passant(LastMove)

\* C4: after the FEN load and after every make_move or undo_move of generated
\* moves, each side's occupancy is the union of its six piece bitboards.
C4_SidesAreUnionOfPieces ==
    \A s \in Sides : sides[s] = UNION { pieces[s][p] : p \in PieceTypes }

\* a castling move has just been made
C4_Witness ==
    /\ Loaded
    /\ Len(game_history) > 0
    /\ (is_king_castling(LastMove) \/ is_queen_castling(LastMove))

\* C5: after the FEN load and after every make_move or undo_move of generated
\* moves, piece_list mirrors the piece bitboards: piece_list[sq] = Pt iff
\* exactly one pieces[side][Pt] contains sq, and piece_list[sq] = None iff no
\* piece bitboard contains sq.
C5_PieceListMirrorsPieces ==
    \A sq \in Squares :
        /\ \A pt \in PieceTypes :
              piece_list[sq] = pt <=>
                  Cardinality({ s \in Sides : sq \in pieces[s][pt] }) = 1
        /\ piece_list[sq] = NoPiece <=>
              \A s \in Sides, pt \in PieceTypes : sq \notin pieces[s][pt]

\* a pawn has just promoted to a knight without capturing
C5_Witness ==
    /\ Loaded
    /\ Len(game_history) > 0
    /\ is_promotion(LastMove)
    /\ ~is_capture(LastMove)
    /\ piece_list[LastMove.to] = Knight

\* C6: in every position reached from a legal start position by moves that
\* generate_moves returned, each side has exactly one king.
C6_OneKingPerSide ==
    Loaded => \A s \in Sides : Cardinality(pieces[s][King]) = 1

\* a move has been made that gives check, and the checked king is on the board
C6_Witness ==
    /\ Loaded
    /\ Len(game_history) > 0
    /\ \E k \in pieces[game_state.active_side][King] :
          Attacks(Board, 1 - game_state.active_side, k)

\* C7: generate_moves(P) returns exactly the pseudo-legal moves of the side
\* to move after which that side's king is not attacked by the opponent.
C7_LegalIffKingSafe ==
    moves_fresh =>
        GeneratedMoves = { mv \in PseudoLegalMoves : KingSafeAfter(mv) }

\* some pseudo-legal moves are returned and some are not
C7_Witness ==
    /\ moves_fresh
    /\ GeneratedMoves # {}
    /\ \E mv \in PseudoLegalMoves : mv \notin GeneratedMoves

\* the castling move of the side to move to the king side or the queen side
\* is in the list generate_moves returned
CastleGenerated(king_side) ==
    \E i \in 1 .. Len(moves) :
        IF king_side THEN is_king_castling(moves[i]) ELSE is_queen_castling(moves[i])

\* square a1 or a8: the first square of the home rank of the side to move
HomeRank == IF game_state.active_side = White THEN A1 ELSE A8

\* the right bit is set, the squares between king and rook are empty, and
\* the king's start, pass-through and destination squares are not attacked
CastleConditions(king_side) ==
    LET side == game_state.active_side
        right == IF side = White
                 THEN (IF king_side THEN WhiteKing ELSE WhiteQueen)
                 ELSE (IF king_side THEN BlackKing ELSE BlackQueen)
        between == IF king_side THEN { HomeRank + 5, HomeRank + 6 }
                   ELSE { HomeRank + 1, HomeRank + 2, HomeRank + 3 }
        king_path == IF king_side THEN { HomeRank + 4, HomeRank + 5, HomeRank + 6 }
                     ELSE { HomeRank + 4, HomeRank + 3, HomeRank + 2 }
    IN /\ HasBit(game_state.castling, right)
       /\ between \cap (sides[White] \cup sides[Black]) = {}
       /\ \A sq \in king_path : ~Attacks(Board, 1 - side, sq)

\* a King stands on the e-square and a Rook on the corner of the castling side
CastlePiecesAtHome(king_side) ==
    /\ piece_list[HomeRank + 4] = King
    /\ piece_list[IF king_side THEN HomeRank + 7 ELSE HomeRank] = Rook

InCheck ==
    \E k \in pieces[game_state.active_side][King] :
        Attacks(Board, 1 - game_state.active_side, k)

C9_SearchRestoresBoard ==
    search_result.valid =>
        /\ search_result.restored
        /\ search_result.balanced
        /\ search_result.calls.lifo
        /\ search_result.calls.undo_move = search_result.calls.make_move

\* one search of depth 3 in which a draw return, a mate short-circuit and a
\* beta cutoff have happened, with make_move and undo_move calls
C9_Witness ==
    /\ search_result.valid
    /\ search_result.depth = 3
    /\ {"draw", "checkmate move", "beta cutoff"} \subseteq search_result.paths
    /\ search_result.calls.make_move > 0

\* C10 as stated: for either side to move, a search that returns on a move
\* flagged is_checkmate returns that move with +MAX_POSITION_SCORE, the score
\* from the point of view of the side to move.
C10_MateScoreForSideToMove ==
    (search_result.valid /\ search_result.path = "checkmate move") =>
        /\ search_result.best_move.some
        /\ search_result.best_move.mv.is_checkmate
        /\ search_result.score = MAX_POSITION_SCORE

\* ------------------------------------------------------------------------
\* Games of knight moves from the starting position: the king's knights go
\* out to the third (sixth) rank and back, and White may push the e-pawn one
\* square, which sets the half-move clock to 0 in the middle of the history.
\* The history is empty when the game starts; the half-move clock of the
\* loaded position is 0 or not.
\* ------------------------------------------------------------------------
\* rnbqkbnr/pppppppp/8/8/8/8/PPPPPPPP/RNBQKBNR w KQkq - 0 1
FEN_STARTING_POSITION ==
    << "r", "n", "b", "q", "k", "b", "n", "r", "/", "p", "p", "p", "p", "p",
       "p", "p", "p", "/", "8", "/", "8", "/", "8", "/", "8", "/", "P", "P",
       "P", "P", "P", "P", "P", "P", "/", "R", "N", "B", "Q", "K", "B", "N",
       "R", " ", "w", " ", "K", "Q", "k", "q", " ", "-", " ", "0", " ", "1" >>

\* rnbqkbnr/pppppppp/8/8/8/8/PPPPPPPP/RNBQKBNR w KQkq - 5 9
FEN_STARTING_POSITION_LATE ==
    << "r", "n", "b", "q", "k", "b", "n", "r", "/", "p", "p", "p", "p", "p",
       "p", "p", "p", "/", "8", "/", "8", "/", "8", "/", "8", "/", "P", "P",
       "P", "P", "P", "P", "P", "P", "/", "R", "N", "B", "Q", "K", "B", "N",
       "R", " ", "w", " ", "K", "Q", "k", "q", " ", "-", " ", "5", " ", "9" >>

RepetitionFenInputs == { FEN_STARTING_POSITION, FEN_STARTING_POSITION_LATE }

\* plies of a game of knight moves: a pawn push and three cycles
MaxRepetitionPly == 13

SquareOf(file, rank) == 8 * rank + file

\* g1, f3, h3 and g8, f6, h6 for the knights; e2, e3 for the pawn
RepetitionSquares ==
    [p \in {Knight, Pawn} |->
        IF p = Knight THEN { SquareOf(6, 0), SquareOf(5, 2), SquareOf(7, 2),
                             SquareOf(6, 7), SquareOf(5, 5), SquareOf(7, 5) }
        ELSE { SquareOf(4, 1), SquareOf(4, 2) }]

\* board.from_fen(Some(fen)) on the new board
RepetitionFromFen ==
    /\ ~panicked
    /\ fen_status = "None"
    /\ \E fen \in RepetitionFenInputs :
          \E r \in {from_fen(Board, fen, TRUE)} :
             /\ BoardBecomes(r.board)
             /\ fen_status' = r.status
    /\ UNCHANGED << moves, moves_fresh, searcher >>

\* board.make_move(mv) for one of these moves mv of
\* movegen.generate_legal_moves(&mut board)
RepetitionMove ==
    /\ ~panicked
    /\ fen_status = "Ok"
    /\ Len(game_history) < MaxRepetitionPly
    /\ \E g \in {generate_legal_moves(Board)} :
          \E i \in 1 .. Len(g.moves) :
             /\ g.moves[i].piece \in DOMAIN RepetitionSquares
             /\ {g.moves[i].from, g.moves[i].to}
                   \subseteq RepetitionSquares[g.moves[i].piece]
             /\ BoardBecomes(make_move(g.board, g.moves[i]))
    /\ UNCHANGED << fen_status, moves, moves_fresh, searcher >>

RepetitionNext == RepetitionFromFen \/ RepetitionMove

RepetitionSpec == Init /\ [][RepetitionNext]_vars

\* ------------------------------------------------------------------------
\* Searches of drawn and undrawn positions: a position is loaded, the
\* king's knights may go out and back (g1-f3, g8-f6), and the position on
\* the board is searched, with the table the earlier searches left.
\* ------------------------------------------------------------------------
\* 6nk/7p/8/8/8/8/7P/6NK w - - 0 1
FEN_KNIGHT_CYCLE ==
    << "6", "n", "k", "/", "7", "p", "/", "8", "/", "8", "/", "8", "/", "8",
       "/", "7", "P", "/", "6", "N", "K", " ", "w", " ", "-", " ", "-", " ",
       "0", " ", "1" >>

\* 4k3/8/8/8/8/8/8/4K3 w - - 0 1
FEN_BARE_KINGS ==
    << "4", "k", "3", "/", "8", "/", "8", "/", "8", "/", "8", "/", "8", "/",
       "8", "/", "4", "K", "3", " ", "w", " ", "-", " ", "-", " ", "0", " ",
       "1" >>

\* 6nk/7p/8/8/8/8/P6P/6NK w - - 96 60
FEN_NEAR_FIFTY ==
    << "6", "n", "k", "/", "7", "p", "/", "8", "/", "8", "/", "8", "/", "8",
       "/", "P", "6", "P", "/", "6", "N", "K", " ", "w", " ", "-", " ", "-",
       " ", "9", "6", " ", "6", "0" >>

DrawFenInputs == { FEN_KNIGHT_CYCLE, FEN_HUNDRED, FEN_BARE_KINGS,
                   FEN_PAWN_ENDING, FEN_NEAR_FIFTY }

\* plies of a game of knight moves before a search: three cycles
MaxDrawPly == 12

\* depth of a search of such a game
MaxDrawDepth == 1

\* g1, f3 and g8, f6
DrawSquares ==
    { SquareOf(6, 0), SquareOf(5, 2), SquareOf(6, 7), SquareOf(5, 5) }

\* board.from_fen(Some(fen)) on the new board
DrawFromFen ==
    /\ ~panicked
    /\ fen_status = "None"
    /\ \E fen \in DrawFenInputs :
          \E r \in {from_fen(Board, fen, TRUE)} :
             /\ BoardBecomes(r.board)
             /\ fen_status' = r.status
    /\ UNCHANGED << moves, moves_fresh, searcher >>

\* board.make_move(mv) for a knight move mv of
\* movegen.generate_legal_moves(&mut board)
DrawMove ==
    /\ ~panicked
    /\ fen_status = "Ok"
    /\ Len(game_history) < MaxDrawPly
    /\ \E g \in {generate_legal_moves(Board)} :
          \E i \in 1 .. Len(g.moves) :
             /\ g.moves[i].piece = Knight
             /\ {g.moves[i].from, g.moves[i].to} \subseteq DrawSquares
             /\ BoardBecomes(make_move(g.board, g.moves[i]))
    /\ search_result' = NoSearchResult
    /\ UNCHANGED << fen_status, moves, moves_fresh, evaluator,
                    transposition_table, table_call >>

\* searcher.search_move(&mut board, depth, MIN_POSITION_SCORE, MAX_POSITION_SCORE)
DrawSearch ==
    /\ ~panicked
    /\ fen_status = "Ok"
    /\ ~search_result.valid
    /\ \E depth \in 0 .. MaxDrawDepth :
          \E r \in {search_move(evaluator, Board, transposition_table, depth,
                               MIN_POSITION_SCORE, MAX_POSITION_SCORE)} :
             /\ BoardBecomes(r.board)
             /\ transposition_table' = r.table
             /\ search_result' =
                    [valid |-> TRUE, depth |-> depth,
                     side |-> game_state.active_side,
                     best_move |-> r.best_move, score |-> r.score,
                     path |-> r.path, paths |-> r.paths,
                     restored |-> r.restored, balanced |-> r.balanced,
                     calls |-> r.board.calls,
                     table_before |-> transposition_table]
    /\ UNCHANGED << fen_status, moves, moves_fresh, evaluator, table_call >>

DrawNext == DrawFromFen \/ DrawMove \/ DrawSearch

DrawSpec == Init /\ [][DrawNext]_vars

\* ------------------------------------------------------------------------
\* Positions by material: the kings on h1 and h8 and, on a4, b4, c4 ..., each
\* a piece of either side or nothing.  a4 and c4 have one colour, b4 the
\* other.
\* ------------------------------------------------------------------------
\* the squares of the fourth rank that may hold a piece
MaterialCells == 3

MaterialChars == { "1", "Q", "q", "R", "r", "B", "b", "N", "n", "P", "p" }

\* 7k/8/8/8/<cells><rest of the rank>/8/8/7K w - - 0 1
MaterialFen(cells) ==
    << "7", "k", "/", "8", "/", "8", "/", "8", "/" >>
    \o cells \o << DigitChars[8 - Len(cells) + 1] >>
    \o << "/", "8", "/", "8", "/", "7", "K", " ", "w", " ", "-", " ", "-",
          " ", "0", " ", "1" >>

MaterialFenInputs ==
    { MaterialFen(cells) : cells \in [1 .. MaterialCells -> MaterialChars] }

\* board.from_fen(Some(fen)) on the new board
MaterialFromFen ==
    /\ ~panicked
    /\ fen_status = "None"
    /\ \E fen \in MaterialFenInputs :
          \E r \in {from_fen(Board, fen, TRUE)} :
             /\ BoardBecomes(r.board)
             /\ fen_status' = r.status
    /\ UNCHANGED << moves, moves_fresh, searcher >>

MaterialNext == MaterialFromFen

MaterialSpec == Init /\ [][MaterialNext]_vars

\* ------------------------------------------------------------------------
\* from_fen on well-formed and malformed strings: a FEN that uses every
\* field (both sides may castle on both wings, and an en-passant target is
\* set), and the same with one character replaced by a letter no field
\* accepts or by a space, which changes the number of fields.  from_fen may
\* be called again on the same board, on which moves have been generated,
\* made and undone if the last call succeeded.
\* ------------------------------------------------------------------------
\* r3k2r/8/8/8/P7/8/8/R3K2R b KQkq a3 0 20
FEN_ALL_FIELDS ==
    << "r", "3", "k", "2", "r", "/", "8", "/", "8", "/", "8", "/", "P", "7",
       "/", "8", "/", "8", "/", "R", "3", "K", "2", "R", " ", "b", " ", "K",
       "Q", "k", "q", " ", "a", "3", " ", "0", " ", "2", "0" >>

DamageChars == { "x", " " }

DamagedFenInputs ==
    { FEN_ALL_FIELDS }
    \cup { [FEN_ALL_FIELDS EXCEPT ![i] = c] :
             i \in 1 .. Len(FEN_ALL_FIELDS), c \in DamageChars }

\* plies made on a board that from_fen is called on again
MaxReloadPly == 1

\* board.from_fen(Some(fen))
DamagedFromFen ==
    /\ ~panicked
    /\ Len(game_history) <= MaxReloadPly
    /\ \E fen \in DamagedFenInputs, overflow_checks \in BOOLEAN :
          \E r \in {from_fen(Board, fen, overflow_checks)} :
             /\ BoardBecomes(r.board)
             /\ fen_status' = r.status
    /\ moves' = <<>>
    /\ moves_fresh' = FALSE
    /\ UNCHANGED searcher

DamagedNext == DamagedFromFen \/ GenerateMoves \/ MakeMove \/ UndoMove

DamagedSpec == Init /\ [][DamagedNext]_vars

\* ------------------------------------------------------------------------
\* A game long enough to fill the history: the position is loaded, a fixed
\* line is played with make_move until the history is nearly full, and the
\* game goes on from there with generated moves.
\* ------------------------------------------------------------------------
\* 6nk/p6p/8/8/8/8/P6P/6NK w - - 0 1
FEN_LONG_GAME ==
    << "6", "n", "k", "/", "p", "6", "p", "/", "8", "/", "8", "/", "8", "/",
       "8", "/", "P", "6", "P", "/", "6", "N", "K", " ", "w", " ", "-", " ",
       "-", " ", "0", " ", "1" >>

\* free entries of the history when the fixed line ends, at most
MaxHistoryGap == 3

\* knight cycles of a block of the line
LineCycles == 50

\* plies of a block of the line: knight moves, then a pawn move of each side
LineBlock == 4 * LineCycles + 2

\* the pawn pushes that end the blocks, White's and Black's
LinePawnPushes ==
    << << quiet(Pawn, SquareOf(0, 1), SquareOf(0, 2)),
          quiet(Pawn, SquareOf(0, 6), SquareOf(0, 5)) >>,
       << quiet(Pawn, SquareOf(0, 2), SquareOf(0, 3)),
          quiet(Pawn, SquareOf(0, 5), SquareOf(0, 4)) >>,
       << quiet(Pawn, SquareOf(7, 1), SquareOf(7, 2)),
          quiet(Pawn, SquareOf(7, 6), SquareOf(7, 5)) >>,
       << quiet(Pawn, SquareOf(7, 2), SquareOf(7, 3)),
          quiet(Pawn, SquareOf(7, 5), SquareOf(7, 4)) >> >>

\* Ng1-f3, Ng8-f6, Nf3-g1, Nf6-g8
LineKnightCycle ==
    << quiet(Knight, G1, SquareOf(5, 2)), quiet(Knight, G8, SquareOf(5, 5)),
       quiet(Knight, SquareOf(5, 2), G1), quiet(Knight, SquareOf(5, 5), G8) >>

\* the i-th move of the line: no run of moves without a pawn move is long
\* enough for the u8 half-move clock to overflow
LineMove(i) ==
    LET block == IF (i - 1) \div LineBlock < Len(LinePawnPushes)
                 THEN (i - 1) \div LineBlock ELSE Len(LinePawnPushes)
        k == (i - 1) - LineBlock * block
    IN IF block < Len(LinePawnPushes) /\ k >= LineBlock - 2
       THEN LinePawnPushes[block + 1][k - (LineBlock - 2) + 1]
       ELSE LineKnightCycle[(k % 4) + 1]

\* for i in lo ..= hi { board.make_move(line[i]) }: the first half of the
\* moves, then the second half
RECURSIVE play_line(_, _, _)
play_line(b, lo, hi) ==
    IF lo > hi \/ b.panicked THEN b
    ELSE IF lo = hi THEN make_move(b, LineMove(lo))
    ELSE Let(play_line(b, lo, (lo + hi) \div 2), LAMBDA first :
             play_line(first, (lo + hi) \div 2 + 1, hi))

\* board.from_fen(Some(fen)) on the new board
HistoryFromFen ==
    /\ ~panicked
    /\ fen_status = "None"
    /\ \E overflow_checks \in BOOLEAN :
          \E r \in {from_fen(Board, FEN_LONG_GAME, overflow_checks)} :
             /\ BoardBecomes(r.board)
             /\ fen_status' = r.status
    /\ moves' = <<>>
    /\ moves_fresh' = FALSE
    /\ UNCHANGED searcher

\* the line is played on the loaded board until the history holds n entries
HistoryPlayLine ==
    /\ ~panicked
    /\ fen_status = "Ok"
    /\ Len(game_history) = 0
    /\ \E n \in (MAX_GAME_MOVES - MaxHistoryGap) .. MAX_GAME_MOVES :
          \E b \in {play_line(Board, 1, n)} : BoardBecomes(b)
    /\ moves' = <<>>
    /\ moves_fresh' = FALSE
    /\ UNCHANGED << fen_status, searcher >>

\* moves = movegen.generate_moves(&mut board), late in the game
HistoryGenerateMoves ==
    /\ Len(game_history) >= MAX_GAME_MOVES - MaxHistoryGap
    /\ GenerateMoves

\* board.make_move(mv) for a move mv of the generated list
HistoryMakeMove ==
    /\ ~panicked
    /\ moves_fresh
    /\ \E i \in 1 .. Len(moves) : BoardBecomes(make_move(Board, moves[i]))
    /\ moves' = <<>>
    /\ moves_fresh' = FALSE
    /\ UNCHANGED << fen_status, searcher >>

\* board.undo_move(), late in the game
HistoryUndoMove ==
    /\ Len(game_history) > MAX_GAME_MOVES - MaxHistoryGap
    /\ UndoMove

HistoryNext ==
    \/ HistoryFromFen
    \/ HistoryPlayLine
    \/ HistoryGenerateMoves
    \/ HistoryMakeMove
    \/ HistoryUndoMove

HistorySpec == Init /\ [][HistoryNext]_vars

\* ------------------------------------------------------------------------
\* The tree of legal moves from the starting position: the position is
\* loaded and generated legal moves are made, every line of play being a
\* path of the tree.
\* ------------------------------------------------------------------------
\* plies of the lines that are played out on the board
MaxPerftPly == 2

\* board.from_fen(Some(FEN_STARTING_POSITION)) on the new board
PerftFromFen ==
    /\ ~panicked
    /\ fen_status = "None"
    /\ \E overflow_checks \in BOOLEAN :
          \E r \in {from_fen(Board, FEN_STARTING_POSITION, overflow_checks)} :
             /\ BoardBecomes(r.board)
             /\ fen_status' = r.status
    /\ UNCHANGED << moves, moves_fresh, searcher >>

\* board.make_move(mv) for a move mv of
\* movegen.generate_legal_moves(&mut board)
PerftMove ==
    /\ ~panicked
    /\ fen_status = "Ok"
    /\ Len(game_history) < MaxPerftPly
    /\ \E g \in {generate_legal_moves(Board)} :
          \E i \in 1 .. Len(g.moves) :
             BoardBecomes(make_move(g.board, g.moves[i]))
    /\ UNCHANGED << fen_status, moves, moves_fresh, searcher >>

PerftNext == PerftFromFen \/ PerftMove

PerftSpec == Init /\ [][PerftNext]_vars

\* ------------------------------------------------------------------------
\* search_move called with a window of the caller's choice, several times
\* on one position and one table: the later calls meet the entries the
\* earlier ones stored.
\* ------------------------------------------------------------------------
\* 4k3/8/8/8/8/8/P3p3/4K3 w - - 0 1
FEN_KING_TAKES ==
    << "4", "k", "3", "/", "8", "/", "8", "/", "8", "/", "8", "/", "8", "/",
       "P", "3", "p", "3", "/", "4", "K", "3", " ", "w", " ", "-", " ", "-",
       " ", "0", " ", "1" >>

WindowFenInputs == { FEN_PAWN_ENDING, FEN_LONE_ROOK, FEN_WHITE_MATES,
                     FEN_KING_TAKES }

\* depth of such a search
MaxWindowDepth == 2

\* searches of one position
MaxWindowSearches == 2

\* the values alpha and beta are drawn from
WindowCuts == { MIN_POSITION_SCORE, 0, MAX_POSITION_SCORE }

Windows == { w \in WindowCuts \X WindowCuts : w[1] < w[2] }

SearchesMade == IF search_result.valid THEN search_result.searches ELSE 0

\* board.from_fen(Some(fen)); Searcher::new(evaluator, movegen, table)
WindowFromFen ==
    /\ ~panicked
    /\ fen_status = "None"
    /\ \E fen \in WindowFenInputs :
          \E r \in {from_fen(Board, fen, TRUE)} :
             /\ BoardBecomes(r.board)
             /\ fen_status' = r.status
    /\ evaluator' \in Evaluators
    /\ UNCHANGED << moves, moves_fresh, transposition_table, search_result,
                    table_call >>

\* searcher.search_move(&mut board, depth, alpha, beta)
WindowSearch ==
    /\ ~panicked
    /\ fen_status = "Ok"
    /\ SearchesMade < MaxWindowSearches
    /\ \E depth \in 0 .. MaxWindowDepth, w \in Windows :
          \E r \in {search_move(evaluator, Board, transposition_table, depth,
                               w[1], w[2])} :
             /\ BoardBecomes(r.board)
             /\ transposition_table' = r.table
             /\ search_result' =
                    [valid |-> TRUE, depth |-> depth,
                     alpha |-> w[1], beta |-> w[2],
                     side |-> game_state.active_side,
                     best_move |-> r.best_move, score |-> r.score,
                     path |-> r.path, paths |-> r.paths,
                     restored |-> r.restored, balanced |-> r.balanced,
                     calls |-> r.board.calls,
                     table_before |-> transposition_table,
                     searches |-> SearchesMade + 1]
    /\ UNCHANGED << fen_status, moves, moves_fresh, evaluator, table_call >>

WindowNext == WindowFromFen \/ WindowSearch

WindowSpec == Init /\ [][WindowNext]_vars

\* ------------------------------------------------------------------------
\* A game from the standard starting position, every move one of the
\* generated legal moves: the moves of a line in which the rook of h1
\* captures on h5 and returns, or, once, any other move.
\* ------------------------------------------------------------------------
\* 1. h4 g5 2. hxg5 h5 3. Rxh5 Nc6 4. Rh1 Nb8 5. Nf3 Nc6 6. e3 Nb8 7. Be2 Nc6
GameLine ==
    << << SquareOf(7, 1), SquareOf(7, 3) >>, << SquareOf(6, 6), SquareOf(6, 4) >>,
       << SquareOf(7, 3), SquareOf(6, 4) >>, << SquareOf(7, 6), SquareOf(7, 4) >>,
       << H1, SquareOf(7, 4) >>, << B8, SquareOf(2, 5) >>,
       << SquareOf(7, 4), H1 >>, << SquareOf(2, 5), B8 >>,
       << G1, SquareOf(5, 2) >>, << B8, SquareOf(2, 5) >>,
       << SquareOf(4, 1), SquareOf(4, 2) >>, << SquareOf(2, 5), B8 >>,
       << F1, SquareOf(4, 1) >>, << B8, SquareOf(2, 5) >> >>

\* the moves made so far are the first moves of the line
OnGameLine ==
    /\ Len(game_history) <= Len(GameLine)
    /\ \A i \in 1 .. Len(game_history) :
          << game_history[i].mv.from, game_history[i].mv.to >> = GameLine[i]

\* board.from_fen(Some(FEN_STARTING_POSITION)) on the new board
GameFromFen ==
    /\ ~panicked
    /\ fen_status = "None"
    /\ \E r \in {from_fen(Board, FEN_STARTING_POSITION, TRUE)} :
          /\ BoardBecomes(r.board)
          /\ fen_status' = r.status
    /\ moves' = <<>>
    /\ moves_fresh' = FALSE
    /\ UNCHANGED searcher

\* moves = movegen.generate_moves(&mut board), during the line
GameGenerateMoves ==
    /\ OnGameLine
    /\ GenerateMoves

\* board.make_move(mv) for a move mv of the generated list, during the line
GameMakeMove ==
    /\ ~panicked
    /\ moves_fresh
    /\ OnGameLine
    /\ \E i \in 1 .. Len(moves) : BoardBecomes(make_move(Board, moves[i]))
    /\ moves' = <<>>
    /\ moves_fresh' = FALSE
    /\ UNCHANGED << fen_status, searcher >>

GameNext == GameFromFen \/ GameGenerateMoves \/ GameMakeMove

GameSpec == Init /\ [][GameNext]_vars

\* the slot of the table a key falls in, and what the slot holds
SlotOf(zobrist) == index(transposition_table, zobrist)

SlotEntry(zobrist) == transposition_table.entries[SlotOf(zobrist)]

\* C11: an entry that retrieve(k) returns has the key k stored in it, after
\* any sequence of store calls, colliding ones included; retrieve(k) returns
\* None when the slot of k is empty or holds an entry with another key.
C11_RetrieveReturnsQueriedKey ==
    table_call.op = "retrieve" =>
        /\ table_call.returned.some =>
               table_call.returned.entry.zobrist = table_call.zobrist
        /\ (~SlotEntry(table_call.zobrist).some
             \/ SlotEntry(table_call.zobrist).entry.zobrist # table_call.zobrist)
              => ~table_call.returned.some

\* a retrieve whose slot holds the entry of a colliding key
C11_Witness ==
    /\ table_call.op = "retrieve"
    /\ SlotEntry(table_call.zobrist).some
    /\ SlotEntry(table_call.zobrist).entry.zobrist # table_call.zobrist
    /\ SlotOf(SlotEntry(table_call.zobrist).entry.zobrist) = SlotOf(table_call.zobrist)
    /\ ~table_call.returned.some

\* C12: store(k, e) overwrites the slot of k exactly when the slot is empty
\* or e.depth >= the depth of the entry in the slot, whatever the key of that
\* entry; otherwise that slot stays as it was; every other slot stays as it
\* was in both cases.
C12_StoreDepthPreferred ==
    table_call.op = "store" =>
        LET idx == SlotOf(table_call.zobrist)
            existing == table_call.before.entries[idx]
            replace == ~existing.some
                       \/ table_call.entry.depth >= existing.entry.depth
        IN /\ replace => transposition_table.entries[idx] = SomeEntry(table_call.entry)
           /\ ~replace => transposition_table.entries[idx] = existing
           /\ \A i \in DOMAIN transposition_table.entries :
                 i # idx => transposition_table.entries[i] = table_call.before.entries[i]
           /\ DOMAIN transposition_table.entries = DOMAIN table_call.before.entries
           /\ transposition_table.mask = table_call.before.mask

\* a store that overwrites the entry of another key of the same depth with
\* a different entry
C12_Witness ==
    /\ table_call.op = "store"
    /\ table_call.before.entries[SlotOf(table_call.zobrist)].some
    /\ table_call.before.entries[SlotOf(table_call.zobrist)].entry.depth
          = table_call.entry.depth
    /\ table_call.before.entries[SlotOf(table_call.zobrist)].entry.zobrist
          # table_call.entry.zobrist
    /\ SlotEntry(table_call.zobrist) = SomeEntry(table_call.entry)

\* the newest history entry whose prior state has half_move_clock = 0, the
\* scan's last; entry 1 when there is none
ScanStop ==
    LET zeros == { i \in 1 .. Len(game_history) :
                     game_history[i].prev_state.half_move_clock = 0 }
    IN IF zeros = {} THEN 1 ELSE CHOOSE i \in zeros : \A j \in zeros : j <= i

\* the scanned entries whose prior state has the key of the current position
ScanHits ==
    { i \in ScanStop .. Len(game_history) :
        game_history[i].prev_state.zobrist_key = game_state.zobrist_key }

\* the moves of the history, oldest first, as (from, to)
MovesPlayed ==
    [i \in 1 .. Len(game_history) |->
        << game_history[i].mv.from, game_history[i].mv.to >>]

\* Nf3 Nf6 Ng1 Ng8
KnightCycle ==
    << << SquareOf(6, 0), SquareOf(5, 2) >>, << SquareOf(6, 7), SquareOf(5, 5) >>,
       << SquareOf(5, 2), SquareOf(6, 0) >>, << SquareOf(5, 5), SquareOf(6, 7) >> >>

\* C13: draw_by_threefold_repetition() is true exactly when the scan of the
\* history from the newest entry to the oldest, which ends with the first
\* entry whose prior state has half_move_clock = 0, meets at least three
\* entries whose prior-state key is the current key; it is true once the
\* cycle Nf3 Nf6 Ng1 Ng8 has been played three times.
C13_ThreefoldIsScanOfThree ==
    Loaded =>
        /\ draw_by_threefold_repetition(Board) <=> Cardinality(ScanHits) >= 3
        /\ MovesPlayed = KnightCycle \o KnightCycle \o KnightCycle
              => draw_by_threefold_repetition(Board)

\* the cycle has just been played three times, from the loaded position
\* with clock 0
C13_Witness ==
    /\ Loaded
    /\ MovesPlayed = KnightCycle \o KnightCycle \o KnightCycle
    /\ game_history[1].prev_state.half_move_clock = 0
    /\ draw_by_threefold_repetition(Board)

\* the search just made met, in the table it was given, an entry for the
\* position that let it return at once (alpha and beta being the whole range)
TableCutoffAtEntry ==
    LET e == search_result.table_before.entries[SlotOf(game_state.zobrist_key)]
    IN /\ e.some
       /\ e.entry.zobrist = game_state.zobrist_key
       /\ e.entry.depth >= search_result.depth
       /\ \/ e.entry.flag = "Exact"
          \/ e.entry.flag = "LowerBound" /\ e.entry.score >= MAX_POSITION_SCORE
          \/ e.entry.flag = "UpperBound" /\ e.entry.score <= MIN_POSITION_SCORE

\* one of the three draw predicates holds of the position on the board
DrawnPosition ==
    \/ game_state.half_move_clock >= 100
    \/ Cardinality(ScanHits) >= 3
    \/ draw_by_insufficient_material(Board)

\* C14: a search_move call that no table entry cuts off, on a position
\* where the fifty-move rule (half_move_clock >= 100), threefold repetition
\* or insufficient material holds, returns best_move = None and score 0; it
\* generates no moves, calls no evaluator and stores nothing in the table.
C14_DrawReturnsNoneZero ==
    (search_result.valid /\ DrawnPosition /\ ~TableCutoffAtEntry) =>
        /\ search_result.best_move = NoMove
        /\ search_result.score = 0
        /\ search_result.paths = {"draw"}
        /\ search_result.calls = NoCalls
        /\ transposition_table = search_result.table_before

\* a depth-1 search of the position the third knight cycle repeats
C14_Witness ==
    /\ search_result.valid
    /\ search_result.depth = 1
    /\ Cardinality(ScanHits) >= 3
    /\ game_state.half_move_clock < 100
    /\ ~draw_by_insufficient_material(Board)
    /\ ~TableCutoffAtEntry
    /\ search_result.path = "draw"

\* how many pieces of a type a side has
Count(side, piece) == Cardinality(pieces[side][piece])

\* what a side has besides its king, when that is bishops and knights only:
\* << bishops, knights >>
Minors(side) == << Count(side, Bishop), Count(side, Knight) >>

HasQueenRookOrPawn ==
    \E s \in Sides : \E p \in {Queen, Rook, Pawn} : Count(s, p) > 0

\* the colour of a square: the parity of rank + file
SquareColour(sq) == (RankOf(sq) + FileOf(sq)) % 2

BishopsOnOneColour ==
    \A w \in pieces[White][Bishop] : \A k \in pieces[Black][Bishop] :
        SquareColour(w) = SquareColour(k)

\* K-K, K+B-K, K+N-K, K-K+B, K-K+N, and K+B-K+B with the bishops on one
\* colour
InsufficientMaterial ==
    \/ << Minors(White), Minors(Black) >> \in
          { << <<0, 0>>, <<0, 0>> >>, << <<1, 0>>, <<0, 0>> >>,
            << <<0, 1>>, <<0, 0>> >>, << <<0, 0>>, <<1, 0>> >>,
            << <<0, 0>>, <<0, 1>> >> }
    \/ /\ Minors(White) = <<1, 0>>
       /\ Minors(Black) = <<1, 0>>
       /\ BishopsOnOneColour

\* C15: draw_by_insufficient_material() is false when either side has a
\* queen, a rook or a pawn; otherwise it is true exactly for K-K, K+B-K,
\* K+N-K, K-K+B, K-K+N, and K+B-K+B with both bishops on squares of one
\* colour (the parity of rank + file).
C15_InsufficientMaterialCases ==
    Loaded =>
        /\ HasQueenRookOrPawn => ~draw_by_insufficient_material(Board)
        /\ ~HasQueenRookOrPawn =>
              (draw_by_insufficient_material(Board) <=> InsufficientMaterial)

\* a bishop each, on squares of one colour
C15_Witness ==
    /\ Loaded
    /\ ~HasQueenRookOrPawn
    /\ Minors(White) = <<1, 0>>
    /\ Minors(Black) = <<1, 0>>
    /\ BishopsOnOneColour
    /\ draw_by_insufficient_material(Board)

\* the last from_fen call returned an error to its caller
FenFailed == fen_status \notin {"None", "Ok", "Panic"}

\* C16: when from_fen fails on a field, the board is left in the reset
\* state: every piece and side bitboard empty, piece_list all None, the game
\* state cleared, the history empty; nothing of the FEN is retained.
C16_FailedFenLeavesReset ==
    FenFailed =>
        /\ \A s \in Sides : sides[s] = {}
        /\ \A s \in Sides : \A p \in PieceTypes : pieces[s][p] = {}
        /\ \A sq \in Squares : piece_list[sq] = NoPiece
        /\ game_state = GameStateNew
        /\ game_history = <<>>

\* the side to move has no legal move: none of its pseudo-legal moves
\* leaves its king safe
NoLegalMove == \A mv \in PseudoLegalMoves : ~KingSafeAfter(mv)

\* C17: search_move with depth >= 1 on a position whose side to move has no
\* legal move returns best_move = None and the terminal score of the
\* position: MIN_POSITION_SCORE when that side is in check (checkmate), 0
\* when it is not (stalemate).
C17_NoLegalMoveTerminalScore ==
    (search_result.valid /\ search_result.depth >= 1 /\ NoLegalMove) =>
        /\ search_result.best_move = NoMove
        /\ search_result.score = IF InCheck THEN MIN_POSITION_SCORE ELSE 0

\* the side to move and its opponent
Mover == game_state.active_side

Opponent == 1 - game_state.active_side

\* side has a piece of the type on the square of board b, in the bitboards
\* and in piece_list
Stands(b, side, piece, square) ==
    /\ square \in b.pieces[side][piece]
    /\ square \in b.sides[side]
    /\ b.piece_list[square] = piece

\* nothing stands on the square of board b
Empty(b, square) ==
    /\ b.piece_list[square] = NoPiece
    /\ \A s \in Sides : square \notin b.sides[s]
    /\ \A s \in Sides : \A p \in PieceTypes : square \notin b.pieces[s][p]

\* the square one rank behind the target of an en-passant capture
BehindTarget(mv) == IF Mover = White THEN mv.to - 8 ELSE mv.to + 8

\* C18: an en-passant capture removes the opponent's pawn from the square
\* one rank behind the target (to - 8 for White, to + 8 for Black), puts the
\* capturing pawn on `to`, resets the half-move clock and clears the
\* en-passant target, for every en-passant capture the generator offers
\* before it filters; undo_move puts the captured pawn back on that square
\* and not on `to`, the capturing pawn back on `from`, and restores the
\* en-passant target and the key.
C18_EnPassantCaptureAndUndo ==
    (Loaded /\ ~panicked) =>
        \A mv \in PseudoLegalMoves :
            is_en_passant(mv) =>
                LET after == make_move(Board, mv)
                    back == undo_move(after)
                IN /\ Stands(Board, Opponent, Pawn, BehindTarget(mv))
                   /\ Empty(after, BehindTarget(mv))
                   /\ Stands(after, Mover, Pawn, mv.to)
                   /\ Empty(after, mv.from)
                   /\ after.game_state.half_move_clock = 0
                   /\ after.game_state.en_passant = Nil
                   /\ Stands(back, Opponent, Pawn, BehindTarget(mv))
                   /\ Empty(back, mv.to)
                   /\ Stands(back, Mover, Pawn, mv.from)
                   /\ back.game_state.en_passant = mv.to
                   /\ back.game_state.zobrist_key = game_state.zobrist_key
                   /\ Position(back) = Position(Board)

\* White may capture en passant
C18_Witness ==
    /\ Loaded
    /\ ~panicked
    /\ Mover = White
    /\ \E mv \in PseudoLegalMoves :
          /\ is_en_passant(mv)
          /\ game_state.en_passant = mv.to
          /\ piece_list[mv.to] = NoPiece

\* the castling bits of a side
RightsOf(side) ==
    IF side = White THEN {WhiteKing, WhiteQueen} ELSE {BlackKing, BlackQueen}

\* C19: a castling move puts the king on g (king side) or c (queen side) of
\* its back rank and the rook of that wing on f or d, empties the squares
\* they came from, clears both castling rights of the mover and none of the
\* opponent, adds one to the half-move clock and clears the en-passant
\* target; undo_move restores king, rook and rights exactly.
C19_CastlingMoveAndUndo ==
    moves_fresh =>
        \A i \in 1 .. Len(moves) :
            (is_king_castling(moves[i]) \/ is_queen_castling(moves[i])) =>
                LET mv == moves[i]
                    king_side == is_king_castling(mv)
                    after == make_move(Board, mv)
                    back == undo_move(after)
                    corner == IF king_side THEN HomeRank + 7 ELSE HomeRank
                IN /\ mv.from = HomeRank + 4
                   /\ mv.to = (IF king_side THEN HomeRank + 6 ELSE HomeRank + 2)
                   /\ Stands(after, Mover, King, mv.to)
                   /\ Stands(after, Mover, Rook,
                             IF king_side THEN HomeRank + 5 ELSE HomeRank + 3)
                   /\ Empty(after, HomeRank + 4)
                   /\ Empty(after, corner)
                   /\ \A bit \in RightsOf(Mover) :
                         ~HasBit(after.game_state.castling, bit)
                   /\ \A bit \in RightsOf(Opponent) :
                         HasBit(after.game_state.castling, bit)
                            <=> HasBit(game_state.castling, bit)
                   /\ after.game_state.half_move_clock
                         = game_state.half_move_clock + 1
                   /\ after.game_state.en_passant = Nil
                   /\ Stands(back, Mover, King, HomeRank + 4)
                   /\ Stands(back, Mover, Rook, corner)
                   /\ back.game_state.castling = game_state.castling
                   /\ Position(back) = Position(Board)

\* the side to move may castle on both wings while the opponent has rights
\* of its own and an en-passant target is set
C19_Witness ==
    /\ moves_fresh
    /\ CastleGenerated(TRUE)
    /\ CastleGenerated(FALSE)
    /\ \E bit \in RightsOf(Opponent) : HasBit(game_state.castling, bit)
    /\ game_state.en_passant # Nil

\* the pawns of the side to move that stand one step from the last rank
PawnsAboutToPromote ==
    { sq \in pieces[Mover][Pawn] :
        RankOf(sq) = (IF Mover = White THEN 6 ELSE 1) }

\* the square straight ahead of such a pawn
Ahead(sq) == IF Mover = White THEN sq + 8 ELSE sq - 8

\* the last-rank squares diagonally ahead of it
DiagonallyAhead(sq) ==
    { t \in Squares : /\ RankOf(t) = RankOf(Ahead(sq))
                      /\ FileOf(t) \in { FileOf(sq) - 1, FileOf(sq) + 1 } }

\* the places in the pseudo-legal list of the moves from one square to
\* another
GeneratedFromTo(from, to) ==
    LET ps == generate_pseudo_legal_moves(Board)
    IN { i \in 1 .. Len(ps) : ps[i].from = from /\ ps[i].to = to }

PseudoLegalAt(i) == generate_pseudo_legal_moves(Board)[i]

\* the moves from one square to another are exactly four promotions, one
\* to each of Queen, Rook, Bishop and Knight
FourPromotions(from, to, capturing) ==
    /\ Cardinality(GeneratedFromTo(from, to)) = 4
    /\ { PseudoLegalAt(i).promotion : i \in GeneratedFromTo(from, to) }
          = {Queen, Rook, Bishop, Knight}
    /\ \A i \in GeneratedFromTo(from, to) :
          /\ PseudoLegalAt(i).piece = Pawn
          /\ is_promotion(PseudoLegalAt(i))
          /\ is_capture(PseudoLegalAt(i)) <=> capturing
          /\ ~is_quiet(PseudoLegalAt(i))
          /\ ~is_double_pawn_push(PseudoLegalAt(i))
          /\ ~is_en_passant(PseudoLegalAt(i))

\* C20: for a pawn one step from the last rank, the push onto an empty
\* last-rank square and each diagonal capture onto an enemy-occupied
\* last-rank square are generated as exactly four moves, promoting to Queen,
\* Rook, Bishop and Knight, and never as a plain quiet or capture move; the
\* capturing promotions carry the Capture and the Promotion flag, and no
\* other move of that pawn is generated.
C20_PromotionsInFours ==
    (Loaded /\ ~panicked) =>
        \A sq \in PawnsAboutToPromote :
            /\ IF piece_list[Ahead(sq)] = NoPiece
               THEN FourPromotions(sq, Ahead(sq), FALSE)
               ELSE GeneratedFromTo(sq, Ahead(sq)) = {}
            /\ \A t \in DiagonallyAhead(sq) :
                  IF t \in sides[Opponent]
                  THEN FourPromotions(sq, t, TRUE)
                  ELSE GeneratedFromTo(sq, t) = {}
            /\ \A t \in Squares \ ({Ahead(sq)} \cup DiagonallyAhead(sq)) :
                  GeneratedFromTo(sq, t) = {}

\* a pawn that may promote by a push and by a capture
C20_Witness ==
    /\ Loaded
    /\ ~panicked
    /\ \E sq \in PawnsAboutToPromote :
          /\ piece_list[Ahead(sq)] = NoPiece
          /\ \E t \in DiagonallyAhead(sq) : t \in sides[Opponent]
          /\ \E i \in GeneratedFromTo(sq, Ahead(sq)) :
                is_promotion(PseudoLegalAt(i))

\* the value move ordering gives a piece
PieceValue(piece) ==
    CASE piece = Pawn -> 100
      [] piece = Knight -> 300
      [] piece = Bishop -> 325
      [] piece = Rook -> 500
      [] piece = Queen -> 900
      [] piece = King -> 5000

\* the piece a capture takes: a pawn when it is en passant, otherwise the
\* piece standing on the target square
Victim(mv) == IF is_en_passant(mv) THEN Pawn ELSE piece_list[mv.to]

\* the captures of the generated list that do not give checkmate
ScoredCaptures ==
    { i \in 1 .. Len(moves) : is_capture(moves[i]) /\ ~moves[i].is_checkmate }

\* C21: in move ordering every capture that does not give checkmate is
\* scored 10 * value(victim) - value(attacker), with the values P = 100,
\* N = 300, B = 325, R = 500, Q = 900, K = 5000, the victim of an en-passant
\* capture being a pawn (so that it scores 900).
C21_CaptureScoredMvvLva ==
    moves_fresh =>
        \A i \in ScoredCaptures :
            move_score(Board, moves[i])
                = 10 * PieceValue(Victim(moves[i]))
                  - PieceValue(piece_list[moves[i].from])

\* a move that make_move may be called with in the current position
CallableMoves == PseudoLegalMoves \cup GeneratedMoves

\* C22: the history never holds more than MAX_GAME_MOVES = 1024 entries, and
\* a make_move issued when it holds 1024 aborts the program: no entry is
\* overwritten and the count does not change.
C22_FullHistoryIsFatal ==
    /\ Len(game_history) <= MAX_GAME_MOVES
    /\ (Loaded /\ ~panicked /\ Len(game_history) = MAX_GAME_MOVES) =>
          \A mv \in CallableMoves :
              LET after == make_move(Board, mv)
              IN /\ after.panicked
                 /\ after.game_history = game_history

\* the history is full, a move can be played, and the make_move that
\* generate_moves issued has aborted
C22_Witness ==
    /\ Loaded
    /\ panicked
    /\ Len(game_history) = MAX_GAME_MOVES
    /\ PseudoLegalMoves # {}

\* C23: undo_move called when the history is empty aborts the program; it is
\* not accepted silently.
C23_UndoOnEmptyHistoryIsFatal ==
    (Loaded /\ ~panicked /\ Len(game_history) = 0) => undo_move(Board).panicked

\* depth of the deepest tree of legal moves that is counted
MaxPerftDepth == 4

\* the known numbers of leaves of the tree of legal moves from the starting
\* position, by depth
PerftReference == << 20, 400, 8902, 197281, 4865609 >>

\* the number of leaves of the tree of generated legal moves of the given
\* depth below position b; the leaves of the last level are counted from
\* the list of moves of their parent
RECURSIVE perft(_, _)
RECURSIVE perft_sum(_, _, _, _, _)
perft_sum(b, legal_moves, lo, hi, depth) ==
    IF lo > hi THEN 0
    ELSE IF lo = hi THEN perft(make_move(b, legal_moves[lo]), depth - 1)
    ELSE Let(perft_sum(b, legal_moves, lo, (lo + hi) \div 2, depth),
             LAMBDA first :
             first + perft_sum(b, legal_moves, (lo + hi) \div 2 + 1, hi, depth))

perft(b, depth) ==
    IF depth = 0 THEN 1
    ELSE Let(generate_legal_moves(b), LAMBDA legal :
             IF depth = 1 THEN Len(legal.moves)
             ELSE perft_sum(legal.board, legal.moves, 1, Len(legal.moves),
                            depth))

\* the starting position is on the board and no move has been made
AtStartingPosition ==
    /\ Loaded
    /\ ~panicked
    /\ Len(game_history) = 0
    /\ Board = from_fen(BoardNew, FEN_STARTING_POSITION, TRUE).board

AfterMakeMove == Loaded /\ ~panicked /\ Len(game_history) > 0

\* the side that made the last move of the history
LastMover == game_history[Len(game_history)].prev_state.active_side

\* C25: whenever en_passant is set after a make_move, the move just played
\* is a double pawn push and en_passant is the square it skipped: to - 8, on
\* the third rank, if White moved and to + 8, on the sixth rank, if Black did.
C25_EnPassantIsSkippedSquare ==
    (AfterMakeMove /\ game_state.en_passant # Nil) =>
        /\ is_double_pawn_push(LastMove)
        /\ LastMove.piece = Pawn
        /\ LastMover = 1 - game_state.active_side
        /\ IF LastMover = White
           THEN /\ game_state.en_passant = LastMove.to - 8
                /\ game_state.en_passant = LastMove.from + 8
                /\ RankOf(game_state.en_passant) = 2
           ELSE /\ game_state.en_passant = LastMove.to + 8
                /\ game_state.en_passant = LastMove.from - 8
                /\ RankOf(game_state.en_passant) = 5

\* a double pawn push has been made and has set en_passant
C25_Witness ==
    /\ AfterMakeMove
    /\ game_state.en_passant # Nil
    /\ is_double_pawn_push(LastMove)
    /\ LastMover = Black

\* the square between the squares a move starts and ends on
SkippedSquare(mv) == (mv.from + mv.to) \div 2

\* the en-passant captures that can be played in the current position
EnPassantCaptures == { mv \in CallableMoves : is_en_passant(mv) }

\* a pawn of the side to move attacks the square
PawnAttacks(square) ==
    \E from \in pieces[Mover][Pawn] :
        square \in (IF Mover = White THEN PAWN_WHITE_ATTACKS[from]
                    ELSE PAWN_BLACK_ATTACKS[from])

\* C26: the en-passant target is available on the very next ply only: every
\* make_move that is not a double pawn push leaves en_passant unset, and an
\* en-passant capture is generated only onto the target, which after a
\* make_move is the square the double pawn push just played has skipped.
C26_EnPassantNextPlyOnly ==
    /\ (AfterMakeMove /\ ~is_double_pawn_push(LastMove)) =>
          /\ game_state.en_passant = Nil
          /\ EnPassantCaptures = {}
    /\ (Loaded /\ ~panicked) =>
          \A mv \in EnPassantCaptures :
              /\ mv.to = game_state.en_passant
              /\ Len(game_history) > 0 =>
                    /\ is_double_pawn_push(LastMove)
                    /\ mv.to = SkippedSquare(LastMove)

\* two plies after the target was set: the pawn that could have captured
\* en passant is to move again and still attacks the square, which is still
\* empty, and no en-passant capture is generated
C26_Witness ==
    /\ AfterMakeMove
    /\ moves_fresh
    /\ Len(game_history) = 2
    /\ game_history[1].prev_state.en_passant # Nil
    /\ PawnAttacks(game_history[1].prev_state.en_passant)
    /\ Empty(Board, game_history[1].prev_state.en_passant)
    /\ game_state.en_passant = Nil
    /\ EnPassantCaptures = {}

\* the game state the last move of the history was made in
StateBeforeLastMove == game_history[Len(game_history)].prev_state

\* the last move was a castling move
LastMoveCastles == is_king_castling(LastMove) \/ is_queen_castling(LastMove)

\* C27: make_move sets half_move_clock to 0 for every pawn move (quiet push,
\* double push, promotion) and every capture (en passant included), and adds
\* exactly 1 to it for every other move (quiet move of a piece, castling).
C27_HalfMoveClockResetOrIncrement ==
    AfterMakeMove =>
        IF LastMove.piece = Pawn \/ is_capture(LastMove)
        THEN game_state.half_move_clock = 0
        ELSE game_state.half_move_clock = StateBeforeLastMove.half_move_clock + 1

\* castling has been played with the clock running, after a move of the
\* opponent that counted as well
C27_Witness ==
    /\ AfterMakeMove
    /\ LastMoveCastles
    /\ StateBeforeLastMove.half_move_clock > 0
    /\ game_state.half_move_clock = StateBeforeLastMove.half_move_clock + 1

\* C28: after a FEN load and after any sequence of make_move and undo_move
\* of generated legal moves, half_move_clock is within 0 .. HALF_MOVE_MAX.
C28_HalfMoveClockWithinMax ==
    (Loaded /\ ~panicked) => game_state.half_move_clock \in 0 .. HALF_MOVE_MAX

\* the castling right that belongs to a corner of the board
CornerRight ==
    (A1 :> WhiteQueen) @@ (H1 :> WhiteKing) @@ (A8 :> BlackQueen)
       @@ (H8 :> BlackKing)

\* what the last move captured, as the history records it
LastCapture == game_history[Len(game_history)].captured_piece

\* the last move took a rook that stood on a corner, not en passant
LastMoveTookCornerRook ==
    /\ is_capture(LastMove)
    /\ ~is_en_passant(LastMove)
    /\ LastCapture.some
    /\ LastCapture.piece = Rook
    /\ LastMove.to \in DOMAIN CornerRight

\* C29: in make_move a quiet king move clears both castling rights of the
\* mover; a quiet rook move from a1, h1, a8 or h8 clears WhiteQueen,
\* WhiteKing, BlackQueen or BlackKing; a capture, not en passant, of a rook
\* standing on a corner clears the right of that corner; and make_move never
\* sets a castling bit that was clear.
C29_CastlingRightsCleared ==
    AfterMakeMove =>
        /\ (is_quiet(LastMove) /\ LastMove.piece = King) =>
              \A bit \in RightsOf(LastMover) : ~HasBit(game_state.castling, bit)
        /\ (is_quiet(LastMove) /\ LastMove.piece = Rook
               /\ LastMove.from \in DOMAIN CornerRight) =>
              ~HasBit(game_state.castling, CornerRight[LastMove.from])
        /\ LastMoveTookCornerRook =>
              ~HasBit(game_state.castling, CornerRight[LastMove.to])
        /\ \A bit \in RightsOf(White) \cup RightsOf(Black) :
              HasBit(game_state.castling, bit)
                 => HasBit(StateBeforeLastMove.castling, bit)

\* a rook has been taken on its corner while its side could still castle
\* with it
C29_Witness ==
    /\ AfterMakeMove
    /\ LastMoveTookCornerRook
    /\ HasBit(StateBeforeLastMove.castling, CornerRight[LastMove.to])
    /\ ~HasBit(game_state.castling, CornerRight[LastMove.to])

\* C30: a search that is entered on a position whose most recent move in the
\* history is flagged is_checkmate, with no table cutoff and no draw, returns
\* best_move = None and a score that is a loss for the side to move, White
\* or Black.
C30_MatedSideLoses ==
    (search_result.valid /\ search_result.path = "last move checkmate") =>
        /\ search_result.best_move = NoMove
        /\ search_result.score < 0

\* what the table held for the position when the search just made began
EntryBefore ==
    search_result.table_before.entries[SlotOf(game_state.zobrist_key)]

\* the entry is one for this position, as deep as the search asked for, and
\* its bound settles the window: exact, a lower bound at beta or above, an
\* upper bound at alpha or below
EntryUsable ==
    /\ EntryBefore.some
    /\ EntryBefore.entry.zobrist = game_state.zobrist_key
    /\ EntryBefore.entry.depth >= search_result.depth
    /\ \/ EntryBefore.entry.flag = "Exact"
       \/ /\ EntryBefore.entry.flag = "LowerBound"
          /\ EntryBefore.entry.score >= search_result.beta
       \/ /\ EntryBefore.entry.flag = "UpperBound"
          /\ EntryBefore.entry.score <= search_result.alpha

\* the table with the slot of the key emptied
WithoutEntry(table, zobrist) ==
    [table EXCEPT !.entries[index(table, zobrist)] = NoEntry]

\* the search just made, run again on the table without the entry
SearchedWithoutEntry ==
    search_move(evaluator, Board,
                WithoutEntry(search_result.table_before, game_state.zobrist_key),
                search_result.depth, search_result.alpha, search_result.beta)

\* C31: search_move returns at once on a table entry exactly when the entry
\* has depth >= the requested depth and is Exact, or LowerBound with score
\* >= beta, or UpperBound with score <= alpha, and then returns the entry's
\* move and score; otherwise the node is searched as if the table had no
\* entry for it.
C31_TableCutoffOnlyWhenUsable ==
    search_result.valid =>
        /\ search_result.path = "tt cutoff" <=> EntryUsable
        /\ EntryUsable =>
              /\ search_result.best_move = EntryBefore.entry.best_move
              /\ search_result.score = EntryBefore.entry.score
              /\ transposition_table = search_result.table_before
        /\ (~EntryUsable /\ EntryBefore.some
               /\ EntryBefore.entry.zobrist = game_state.zobrist_key) =>
              Let(SearchedWithoutEntry, LAMBDA r :
                  /\ search_result.best_move = r.best_move
                  /\ search_result.score = r.score
                  /\ search_result.path = r.path)

\* an entry too shallow for the search, and one deep enough whose bound
\* does not settle the window: both searched; an entry used
C31_Witness ==
    /\ search_result.valid
    /\ EntryUsable
    /\ EntryBefore.entry.flag = "LowerBound"
    /\ search_result.path = "tt cutoff"

C31_WitnessShallow ==
    /\ search_result.valid
    /\ EntryBefore.some
    /\ EntryBefore.entry.zobrist = game_state.zobrist_key
    /\ EntryBefore.entry.depth < search_result.depth
    /\ EntryBefore.entry.flag = "Exact"
    /\ search_result.path = "searched"

C31_WitnessBound ==
    /\ search_result.valid
    /\ EntryBefore.some
    /\ EntryBefore.entry.zobrist = game_state.zobrist_key
    /\ EntryBefore.entry.depth >= search_result.depth
    /\ EntryBefore.entry.flag = "UpperBound"
    /\ EntryBefore.entry.score > search_result.alpha
    /\ search_result.path = "searched"

\* the entry search_move builds when the loop is over: the node's key and
\* depth, the best score and move, and the bound the score is relative to
\* the window the call was given
EntryToStore ==
    TranspositionTableEntry(
        game_state.zobrist_key, search_result.depth, search_result.score,
        IF search_result.score <= search_result.alpha THEN "UpperBound"
        ELSE IF search_result.score >= search_result.beta THEN "LowerBound"
        ELSE "Exact",
        search_result.best_move)

\* the moves of the position in the order the loop takes them
RootMoves == generate_moves(Board).moves

\* what a move is worth to the mover when the position after it is a leaf:
\* 0 for a draw, else the evaluation negated
LeafScore(mv) ==
    Let(make_move(Board, mv), LAMBDA after :
        IF \/ draw_by_fifty_move_rule(after)
           \/ draw_by_threefold_repetition(after)
           \/ draw_by_insufficient_material(after)
        THEN 0
        ELSE 0 - evaluate_board(evaluator, after))

Maximum(S) == CHOOSE x \in S : \A y \in S : y <= x

\* the moves a depth-1 search examines, given the worth of each: a move is
\* examined when alpha, raised by the moves before it, is still below beta
ExaminedMoves(leaf) ==
    { i \in DOMAIN leaf :
        \A j \in 1 .. (i - 1) :
            Maximum({search_result.alpha} \cup { leaf[k] : k \in 1 .. j })
                < search_result.beta }

\* a first search of depth 1: the table is empty and the children are leaves
FirstShallowSearch ==
    /\ search_result.valid
    /\ search_result.searches = 1
    /\ search_result.depth = 1
    /\ search_result.path = "searched"

\* C32: when the move loop is over, search_move stores an entry for the
\* node's key with the node's depth, best score and best move, flagged
\* UpperBound if the best score is <= alpha at entry, LowerBound if it is
\* >= beta, Exact otherwise (the table keeps a deeper entry it already has
\* in the slot); the loop stops as soon as alpha >= beta, so that the best
\* score and move are those of the moves up to the first that raises alpha
\* to beta.
C32_StoresBoundAndStopsAtBeta ==
    /\ (search_result.valid /\ search_result.path = "searched") =>
          IF EntryBefore.some /\ EntryBefore.entry.depth > search_result.depth
          THEN SlotEntry(game_state.zobrist_key) = EntryBefore
          ELSE SlotEntry(game_state.zobrist_key) = SomeEntry(EntryToStore)
    /\ FirstShallowSearch =>
          Let([i \in 1 .. Len(RootMoves) |-> LeafScore(RootMoves[i])],
              LAMBDA leaf :
              LET examined == ExaminedMoves(leaf)
                  best == Maximum({MIN_POSITION_SCORE}
                                  \cup { leaf[i] : i \in examined })
                  first == CHOOSE i \in examined :
                              /\ leaf[i] = best
                              /\ \A j \in examined : leaf[j] = best => i <= j
              IN /\ search_result.score = best
                 /\ search_result.best_move =
                        IF best > MIN_POSITION_SCORE
                        THEN SomeMove(RootMoves[first]) ELSE NoMove
                 /\ "beta cutoff" \in search_result.paths
                        <=> examined /= DOMAIN leaf
                            \/ Maximum({search_result.alpha}
                                       \cup { leaf[i] : i \in DOMAIN leaf })
                                  >= search_result.beta)

\* a depth-1 search stopped by beta before a move worth more than the one
\* it returned, its entry stored as a lower bound
C32_Witness ==
    /\ FirstShallowSearch
    /\ "beta cutoff" \in search_result.paths
    /\ \E i \in 1 .. Len(RootMoves) :
          LeafScore(RootMoves[i]) > search_result.score
    /\ SlotEntry(game_state.zobrist_key).some
    /\ SlotEntry(game_state.zobrist_key).entry.flag = "LowerBound"

\* the king of a side in position b is attacked by the other side
KingAttacked(b, side) ==
    \E k \in b.pieces[side][King] : Attacks(b, 1 - side, k)

\* the side to move in position b has a move that leaves its king unattacked
HasLegalMove(b) ==
    LET ps == generate_pseudo_legal_moves(b)
    IN \E i \in 1 .. Len(ps) :
          ~KingAttacked(make_move(b, ps[i]), b.game_state.active_side)

\* C33: for every move m that generate_moves returns, m.is_check holds
\* exactly when, after m is made, the king of the opponent is attacked by
\* the side that moved, and m.is_checkmate exactly when m.is_check holds
\* and the opponent has no legal move.
C33_CheckAndCheckmateFlags ==
    moves_fresh =>
        \A i \in 1 .. Len(moves) :
            Let(make_move(Board, moves[i]), LAMBDA after :
                /\ moves[i].is_check <=> KingAttacked(after, Opponent)
                /\ moves[i].is_checkmate
                      <=> KingAttacked(after, Opponent) /\ ~HasLegalMove(after))

\* a list with a move that checks and does not mate, and a list with a mate
C33_Witness ==
    /\ moves_fresh
    /\ \E i \in 1 .. Len(moves) : moves[i].is_check /\ ~moves[i].is_checkmate

C33_WitnessMate ==
    /\ moves_fresh
    /\ \E i, j \in 1 .. Len(moves) :
          /\ moves[i].is_checkmate
          /\ ~moves[j].is_check

\* the ordering score of a generated move: 100000 for a checkmate; else
\* 10 * value(victim) - value(attacker) for a capture, the victim of an
\* en-passant capture being a pawn; else the value of the promoted piece;
\* else 500 for a check; else 0
OrderingScore(mv) ==
    IF mv.is_checkmate THEN 100000
    ELSE IF is_capture(mv)
         THEN 10 * PieceValue(Victim(mv)) - PieceValue(piece_list[mv.from])
    ELSE IF is_promotion(mv) THEN PieceValue(mv.promotion)
    ELSE IF mv.is_check THEN 500
    ELSE 0

\* the place of a generated move in the order of generation
GenerationIndex(mv) ==
    LET legal == generate_legal_moves(Board).moves
    IN CHOOSE k \in 1 .. Len(legal) : legal[k] = Plain(mv)

\* the list is in non-increasing order of score, moves of equal score in
\* their order of generation
SortedStable(score(_)) ==
    \A i, j \in 1 .. Len(moves) :
        i < j =>
            /\ score(moves[i]) >= score(moves[j])
            /\ score(moves[i]) = score(moves[j])
                  => GenerationIndex(moves[i]) < GenerationIndex(moves[j])

\* the score sort_moves gives a move
ComputedScore(mv) == move_score(Board, mv)

\* the list is sorted, stably, by the score sort_moves computes
SortedByComputedScore == moves_fresh => SortedStable(ComputedScore)

\* every checkmating move precedes every move that does not give checkmate
MatesFirst ==
    moves_fresh =>
        \A i, j \in 1 .. Len(moves) :
            (moves[i].is_checkmate /\ ~moves[j].is_checkmate) => i < j

\* C34: generate_moves returns its moves in non-increasing order of ordering
\* score (100000 for a checkmating move; else MVV-LVA for a capture; else
\* the value of the promoted piece; else 500 for a check; else 0), moves of
\* equal score in their generation order; hence every checkmating move
\* precedes every non-checkmating one.
C34_SortedStableByOrderingScore ==
    /\ moves_fresh => SortedStable(OrderingScore)
    /\ MatesFirst

\* the squares the king and the rook of a castling right start on
HomeSquares ==
    (WhiteKing :> {E1, H1}) @@ (WhiteQueen :> {E1, A1})
       @@ (BlackKing :> {E8, H8}) @@ (BlackQueen :> {E8, A8})

\* no move of the game so far left the square
NeverLeft(square) ==
    \A i \in 1 .. Len(game_history) : game_history[i].mv.from /= square

\* the castling right a castling move uses
RightUsed(mv) ==
    IF is_king_castling(mv)
    THEN (IF mv.from = E1 THEN WhiteKing ELSE BlackKing)
    ELSE (IF mv.from = E1 THEN WhiteQueen ELSE BlackQueen)

\* C35: in every position reached from the standard starting position by
\* generated legal moves, a castling right that is set implies that the
\* king and the rook it is about have never moved, by a quiet move or by a
\* capture; so no castling move is generated for a king or a rook that has
\* left its square and come back.
C35_RightsImplyNeverMoved ==
    Loaded =>
        /\ \A bit \in DOMAIN HomeSquares :
              HasBit(game_state.castling, bit)
                 => \A square \in HomeSquares[bit] : NeverLeft(square)
        /\ moves_fresh =>
              \A i \in 1 .. Len(moves) :
                  (is_king_castling(moves[i]) \/ is_queen_castling(moves[i])) =>
                      \A square \in HomeSquares[RightUsed(moves[i])] :
                          NeverLeft(square)

\* the legal moves of the position: the pseudo-legal moves that leave the
\* mover's king unattacked
LegalMoves == { mv \in PseudoLegalMoves : KingSafeAfter(mv) }

\* the search just made was one of a loaded position with a table that was
\* still empty, to depth 1 or more
RootSearched ==
    /\ search_result.valid
    /\ Len(game_history) = 0
    /\ search_result.depth >= 1

\* C36: for a root position with at least one legal move in which no draw
\* predicate holds, a search to depth >= 1 with an initially empty table
\* returns Some(m), m a legal move of the root; None is returned only when
\* the root has no legal move or is a draw.
C36_SearchReturnsLegalMove ==
    (RootSearched /\ LegalMoves /= {} /\ ~DrawnPosition) =>
        /\ search_result.best_move.some
        /\ Plain(search_result.best_move.mv) \in LegalMoves

\* the fifty-move rule or threefold repetition holds of the position
DrawnByClockOrRepetition ==
    \/ game_state.half_move_clock >= 100
    \/ Cardinality(ScanHits) >= 3

\* C37: search_move never returns a score other than 0 for a position of
\* which the fifty-move rule or threefold repetition holds, also when the
\* table holds an entry of sufficient depth for the key of the position,
\* stored when the position was reached by another path.
C37_DrawnPositionScoresZero ==
    (search_result.valid /\ DrawnByClockOrRepetition) =>
        search_result.score = 0

\* the side to move in position b is checkmated
Checkmated(b) ==
    KingAttacked(b, b.game_state.active_side) /\ ~HasLegalMove(b)

\* the positions one legal move away from position b
Successors(b) ==
    LET ps == generate_pseudo_legal_moves(b)
    IN { after \in { make_move(b, ps[i]) : i \in 1 .. Len(ps) } :
           ~KingAttacked(after, b.game_state.active_side) }

\* exhaustive negamax to depth d, for the side to move: a checkmated side
\* has the lowest score, a draw is 0, at depth 0 the evaluator decides, and
\* otherwise the score is the best of the negated scores of the successors
\* (the lowest score when there is none); no window and no table
RECURSIVE negamax(_, _)
negamax(b, d) ==
    IF Checkmated(b) THEN MIN_POSITION_SCORE
    ELSE IF \/ draw_by_fifty_move_rule(b)
            \/ draw_by_threefold_repetition(b)
            \/ draw_by_insufficient_material(b)
    THEN 0
    ELSE IF d = 0 THEN evaluate_board(evaluator, b)
    ELSE Let({ negamax(after, d - 1) : after \in Successors(b) }, LAMBDA below :
             Maximum({MIN_POSITION_SCORE} \cup { 0 - x : x \in below }))

\* the search just made was one of a loaded position with a table that was
\* still empty
EmptyTableSearched == search_result.valid /\ Len(game_history) = 0

\* C38: started with an empty transposition table and the full window,
\* search_move(board, d) returns the score that exhaustive negamax to
\* depth d gives the root, with the same terminal rules (draw 0, mate
\* extremal, evaluator at depth 0) and neither cutoffs nor table.
C38_SameScoreAsNegamax ==
    EmptyTableSearched =>
        search_result.score = negamax(Board, search_result.depth)

\* keys whose draws have bits within and beyond the mask
IndexKeys == SUBSET {1, 2, 15, 16, 17, 64}

\* every index computed from a key is a slot of the table
IndexWithinTable ==
    \A zobrist \in IndexKeys \cup TableKeys :
        /\ SlotOf(zobrist) \in DOMAIN transposition_table.entries
        /\ SlotOf(zobrist) >= 0
        /\ SlotOf(zobrist) < 2 ^ SizeBits

\* from one state to the next an occupied slot stays occupied and the depth
\* of its entry does not decrease
SlotsOnlyDeepen ==
    \A i \in DOMAIN transposition_table.entries :
        transposition_table.entries[i].some =>
            /\ transposition_table'.entries[i].some
            /\ transposition_table'.entries[i].entry.depth
                  >= transposition_table.entries[i].entry.depth

\* C39: over any sequence of store calls the depth of the entry in a slot
\* never decreases and an occupied slot never becomes empty; every index
\* computed from a key lies within the table (index < 2^size_bits).
C39_SlotsOnlyDeepenIndexWithin ==
    /\ []IndexWithinTable
    /\ [][SlotsOnlyDeepen]_vars

\* a store of a shallower entry into an occupied slot, which kept its entry,
\* after a store that had replaced the entry of that slot by a deeper one
C39_Witness ==
    /\ table_call.op = "store"
    /\ table_call.before.entries[SlotOf(table_call.zobrist)].some
    /\ table_call.entry.depth
          < table_call.before.entries[SlotOf(table_call.zobrist)].entry.depth
    /\ SlotEntry(table_call.zobrist)
          = table_call.before.entries[SlotOf(table_call.zobrist)]
    /\ SlotEntry(table_call.zobrist).entry.depth = MaxTableDepth
====
